---- MODULE Spec2Model ----
(***************************************************************************)
(* Terrain editor: the undo/redo history hook (hooks/useUndoableState),    *)
(* the brush engine (services/terrainUtils) and the stroke handling of     *)
(* App / TerrainEditor.                                                    *)
(*                                                                         *)
(* Three specifications share the variables below:                         *)
(*   SpecHist   the history hook alone, entries numbered by creation;      *)
(*   SpecBrush  applyBrush as a pure function of enumerated inputs;        *)
(*   Spec       the editor: pointer/keyboard/toolbar handlers over the     *)
(*              hook and the brush engine, with React's render step.       *)
(***************************************************************************)
EXTENDS Integers, Sequences, FiniteSets, TLC

VARIABLES
    history,            \* useUndoableState: history (1-based here, 0-based in the source)
    currentIndex,       \* useUndoableState: currentIndex (0-based, as in the source)
    lastOp,             \* ghost: the handler that produced this state
    before,             \* ghost: [idx, entry] seen by the handler before it ran
    pushCount,          \* ghost: number of entries created so far (next entry number)
    evictions,          \* ghost: number of entries dropped from the front so far
    bIn,                \* SpecBrush: the arguments of the applyBrush call
    bOut,               \* SpecBrush: its result
    bReps,              \* SpecBrush: number of calls made so far
    app,                \* Spec: App's useState values (liveState, tool, paintMode, ...)
    editor,             \* Spec: TerrainEditor's refs and the props its listeners closed over
    stroke,             \* ghost: the brush calls of the stroke in progress
    ev,                 \* ghost: the last event handled and the state it found
    events,             \* ghost: number of events handled so far
    call,               \* SpecCalls: a pure function and its arguments
    ret,                \* SpecCalls: what the call returned
    heap,               \* SpecHeap: the Float32Arrays allocated so far, by address
    refs                \* SpecHeap: the grids (pairs of addresses) the editor holds

histVars == <<history, currentIndex, lastOp, before, pushCount, evictions>>
histGhosts == <<lastOp, before, pushCount, evictions>>
brushVars == <<bIn, bOut, bReps>>
editorVars == <<app, editor, stroke, ev, events>>
callVars == <<call, ret>>
heapVars == <<heap, refs>>

vars == <<history, currentIndex, lastOp, before, pushCount, evictions, bIn, bOut, bReps,
          app, editor, stroke, ev, events, call, ret, heap, refs>>

-----------------------------------------------------------------------------
(* Program constants *)

MAX_HISTORY == 100

(* Bounds of the history specification *)

\* pushes explored after the initial state
MaxPush == 3
\* a push is explored when the cursor is at most this far below the last entry
MaxBranchDepth == 2

-----------------------------------------------------------------------------
(* constants.ts, types.ts *)

TERRAIN_WIDTH == 100000
TERRAIN_HEIGHT == 100000
\* grid resolution of the model (128 x 128 segments in the source)
TERRAIN_SEGMENTS_X == 2
TERRAIN_SEGMENTS_Y == 2
SEA_FLOOR_LEVEL == -10
SNOW_LEVEL == 40
ROCK_LEVEL == 25
LAND_LEVEL == 0

\* colours as <<r, g, b>> in units of 1/255
snowColor == <<255, 255, 255>>
rockColor == <<153, 153, 153>>
landColor == <<204, 204, 204>>
sandColor == <<242, 226, 160>>
grassColor == <<106, 153, 78>>

Tool == {"Raise", "Lower", "Flatten", "Smooth", "Paint", "Plane"}

\* an optional value: <<>> is undefined / null, <<v>> is the value v
Undefined == <<>>
Some(v) == <<v>>
IsDefined(o) == o # <<>>
Get(o) == o[1]

-----------------------------------------------------------------------------
(* Arithmetic of the model.  Heights are whole world units.  Fractions     *)
(* (falloff, strengths, blend factors) are counted in 1/FP.  Positions in  *)
(* the plane are counted in PlanarUnit world units, so that squared        *)
(* distances stay inside the checker's integers.                           *)

FP == 10 * 10
PlanarUnit == TERRAIN_WIDTH \div 100

\* n / d rounded to the nearest integer
RoundDiv(n, d) == (2 * n + d) \div (2 * d)

Max(a, b) == IF a >= b THEN a ELSE b
Min(a, b) == IF a <= b THEN a ELSE b

RECURSIVE IsqrtBetween(_, _, _)
IsqrtBetween(n, lo, hi) ==
    IF lo >= hi THEN lo
    ELSE LET mid == (lo + hi + 1) \div 2
         IN  IF mid * mid <= n THEN IsqrtBetween(n, mid, hi)
                               ELSE IsqrtBetween(n, lo, mid - 1)

\* Math.sqrt on a squared distance, rounded down
Isqrt(n) == IsqrtBetween(n, 0, Min(n, 40000))

-----------------------------------------------------------------------------
(* services/terrainUtils.ts *)

VERTICES_X == TERRAIN_SEGMENTS_X + 1
VERTICES_Y == TERRAIN_SEGMENTS_Y + 1
BRUSH_INTENSITY_MULTIPLIER == 3000
\* DEFAULT_STRENGTH = 0.5
DEFAULT_STRENGTH == FP \div 2
\* applyPlane: FIXED_STRENGTH = 0.3, coreRadius = brushRadius * 0.8
FIXED_STRENGTH == (3 * FP) \div 10
CoreNum == 8
CoreDen == 10

\* typed-array element read and write (index0 is the source's 0-based index;
\* a write outside the array is ignored)
ReadAt(arr, index0) == arr[index0 + 1]
WriteAt(arr, index0, v) ==
    IF (index0 + 1) \in DOMAIN arr THEN [arr EXCEPT ![index0 + 1] = v] ELSE arr

\* Color.fromArray(colorData, index * 3) and Color.toArray(colorData, index * 3)
ColorFromArray(colorData, index) ==
    <<ReadAt(colorData, index * 3), ReadAt(colorData, index * 3 + 1),
      ReadAt(colorData, index * 3 + 2)>>
ColorToArray(colorData, index, color) ==
    WriteAt(WriteAt(WriteAt(colorData, index * 3, color[1]),
                    index * 3 + 1, color[2]), index * 3 + 2, color[3])

\* Color.lerp / Color.lerpColors with alpha in 1/FP
LerpColor(a, b, alpha) ==
    [ch \in 1..3 |-> a[ch] + RoundDiv((b[ch] - a[ch]) * alpha, FP)]

\* mutant: smoothStep without the clamp to [0, 1]
smoothStep_unclamped(min, max, value) ==
    LET x == ((value - min) * FP) \div (max - min)
    IN  (x * x * (3 * FP - 2 * x)) \div (FP * FP)

\* smoothStep(min, max, value), arguments in one common unit, result in 1/FP
smoothStep(min, max, value) ==
    LET x == Max(0, Min(FP, ((value - min) * FP) \div (max - min)))
    IN  (x * x * (3 * FP - 2 * x)) \div (FP * FP)

calculateColorFromHeight(height) ==
    IF height >= SNOW_LEVEL THEN snowColor
    ELSE IF height >= ROCK_LEVEL
         THEN LerpColor(rockColor, snowColor,
                        ((height - ROCK_LEVEL) * FP) \div (SNOW_LEVEL - ROCK_LEVEL))
    ELSE IF height >= LAND_LEVEL
         THEN LerpColor(landColor, rockColor,
                        ((height - LAND_LEVEL) * FP) \div (ROCK_LEVEL - LAND_LEVEL))
    ELSE sandColor

RECURSIVE ColorLoop(_, _, _)
ColorLoop(heightData, colorData, i) ==
    IF i >= Len(heightData) THEN colorData
    ELSE ColorLoop(heightData,
                   ColorToArray(colorData, i, calculateColorFromHeight(ReadAt(heightData, i))),
                   i + 1)

\* mutant: one channel per vertex instead of three
generateInitialColorData_oneChannel(heightData) ==
    [k \in 1..Len(heightData) |-> calculateColorFromHeight(heightData[k])[1]]

\* new Float32Array(heightData.length * 3), then one colour per vertex
generateInitialColorData(heightData) ==
    ColorLoop(heightData, [k \in 1..(Len(heightData) * 3) |-> 0], 0)

\* Positions scaled by PlaneScale, so that vertex positions are integers for
\* every segment count: vertexX = (x / TERRAIN_SEGMENTS_X - 0.5) * TERRAIN_WIDTH
PlaneScale == 2 * TERRAIN_SEGMENTS_X * TERRAIN_SEGMENTS_Y
VertexXScaled(x) ==
    (2 * x - TERRAIN_SEGMENTS_X) * TERRAIN_SEGMENTS_Y * (TERRAIN_WIDTH \div PlanarUnit)
VertexZScaled(y) ==
    (2 * y - TERRAIN_SEGMENTS_Y) * TERRAIN_SEGMENTS_X * (TERRAIN_HEIGHT \div PlanarUnit)

\* dx, dz: vertex position minus intersection point (scaled by PlaneScale)
DxScaled(x, point) == VertexXScaled(x) - point.x * PlaneScale
DzScaled(y, point) == VertexZScaled(y) - point.z * PlaneScale
DistSqScaled(x, y, point) ==
    DxScaled(x, point) * DxScaled(x, point) + DzScaled(y, point) * DzScaled(y, point)

\* mutant: the brush radius is the brush size, not half of it
BrushRadiusScaled_diameter(brush) == brush.size * PlaneScale

\* brushRadius = brush.size / 2 (scaled by PlaneScale)
BrushRadiusScaled(brush) == brush.size * TERRAIN_SEGMENTS_X * TERRAIN_SEGMENTS_Y

\* if (distSq < brushRadiusSq)
InBrush(x, y, point, brush) ==
    DistSqScaled(x, y, point) < BrushRadiusScaled(brush) * BrushRadiusScaled(brush)

\* falloff = 1 - smoothStep(0, brushRadius, Math.sqrt(distSq)), in 1/FP
Falloff(x, y, point, brush) ==
    FP - smoothStep(0, BrushRadiusScaled(brush), Isqrt(DistSqScaled(x, y, point)))

\* the nested loops over y and x, as one loop over index = y * VERTICES_X + x,
\* applying Body(acc, x, y) to the arrays being built
RECURSIVE ForEachVertex(_, _, _)
ForEachVertex(Body(_, _, _), acc, index) ==
    IF index >= VERTICES_X * VERTICES_Y THEN acc
    ELSE ForEachVertex(Body, Body(acc, index % VERTICES_X, index \div VERTICES_X), index + 1)

\* mutant: the new height is not clamped
RaiseLowerVertex_unclamped(acc, x, y, intersectionPoint, brush, isRaise) ==
    IF InBrush(x, y, intersectionPoint, brush)
    THEN LET falloff == Falloff(x, y, intersectionPoint, brush)
             amount == (IF isRaise THEN 1 ELSE -1) *
                       RoundDiv(DEFAULT_STRENGTH * falloff * BRUSH_INTENSITY_MULTIPLIER, FP * FP)
             index == y * VERTICES_X + x
         IN  [acc EXCEPT !.heightData =
                 WriteAt(acc.heightData, index, ReadAt(acc.heightData, index) + amount)]
    ELSE acc

RaiseLowerVertex(acc, x, y, intersectionPoint, brush, isRaise) ==
    IF InBrush(x, y, intersectionPoint, brush)
    THEN LET falloff == Falloff(x, y, intersectionPoint, brush)
             amount == (IF isRaise THEN 1 ELSE -1) *
                       RoundDiv(DEFAULT_STRENGTH * falloff * BRUSH_INTENSITY_MULTIPLIER, FP * FP)
             index == y * VERTICES_X + x
             currentHeight == ReadAt(acc.heightData, index)
             newHeight == IF isRaise THEN Min(currentHeight + amount, TERRAIN_WIDTH)
                                     ELSE Max(SEA_FLOOR_LEVEL, currentHeight + amount)
             newColor == calculateColorFromHeight(newHeight)
             currentColor == ColorFromArray(acc.colorData, index)
         IN  [heightData |-> WriteAt(acc.heightData, index, newHeight),
              colorData |-> ColorToArray(acc.colorData, index,
                               LerpColor(currentColor, newColor,
                                         (DEFAULT_STRENGTH * falloff) \div FP))]
    ELSE acc

applyRaiseLower(heightData, colorData, intersectionPoint, brush, isRaise) ==
    ForEachVertex(LAMBDA acc, x, y :
                      RaiseLowerVertex(acc, x, y, intersectionPoint, brush, isRaise),
                  [heightData |-> heightData, colorData |-> colorData], 0)

\* mutant: the blend towards the target uses three times the strength
FlattenVertex_overshoot(acc, x, y, intersectionPoint, brush, targetHeight) ==
    IF InBrush(x, y, intersectionPoint, brush)
    THEN LET falloff == Falloff(x, y, intersectionPoint, brush)
             strength == (3 * DEFAULT_STRENGTH * falloff) \div FP
             index == y * VERTICES_X + x
             currentHeight == ReadAt(acc.heightData, index)
         IN  [acc EXCEPT !.heightData =
                 WriteAt(acc.heightData, index,
                         currentHeight + RoundDiv((targetHeight - currentHeight) * strength, FP))]
    ELSE acc

FlattenVertex(acc, x, y, intersectionPoint, brush, targetHeight) ==
    IF InBrush(x, y, intersectionPoint, brush)
    THEN LET falloff == Falloff(x, y, intersectionPoint, brush)
             strength == (DEFAULT_STRENGTH * falloff) \div FP
             index == y * VERTICES_X + x
             currentHeight == ReadAt(acc.heightData, index)
             newHeight == currentHeight +
                          RoundDiv((targetHeight - currentHeight) * strength, FP)
             newColor == calculateColorFromHeight(newHeight)
             currentColor == ColorFromArray(acc.colorData, index)
         IN  [heightData |-> WriteAt(acc.heightData, index, newHeight),
              colorData |-> ColorToArray(acc.colorData, index,
                               LerpColor(currentColor, newColor, strength))]
    ELSE acc

applyFlatten(heightData, colorData, intersectionPoint, brush, targetHeight) ==
    ForEachVertex(LAMBDA acc, x, y :
                      FlattenVertex(acc, x, y, intersectionPoint, brush, targetHeight),
                  [heightData |-> heightData, colorData |-> colorData], 0)

\* the 3 x 3 neighbourhood of (x, y), clipped at the grid edges
Neighbors(x, y) ==
    {n \in {<<x + i, y + j>> : i \in {-1, 0, 1}, j \in {-1, 0, 1}} :
        n[1] >= 0 /\ n[1] < VERTICES_X /\ n[2] >= 0 /\ n[2] < VERTICES_Y}

RECURSIVE SumOver(_, _)
SumOver(F(_), set) ==
    IF set = {} THEN 0
    ELSE LET e == CHOOSE e \in set : TRUE
         IN  F(e) + SumOver(F, set \ {e})

SmoothVertex(acc, x, y, heightData, colorData, intersectionPoint, brush) ==
    IF InBrush(x, y, intersectionPoint, brush)
    THEN LET index == y * VERTICES_X + x
             ns == Neighbors(x, y)
             neighborCount == Cardinality(ns)
             totalHeight == SumOver(LAMBDA n : ReadAt(heightData, n[2] * VERTICES_X + n[1]), ns)
             totalColor == [ch \in 1..3 |->
                 SumOver(LAMBDA n : ColorFromArray(colorData, n[2] * VERTICES_X + n[1])[ch], ns)]
         IN  IF neighborCount > 0
             THEN LET falloff == Falloff(x, y, intersectionPoint, brush)
                      strength == (DEFAULT_STRENGTH * falloff) \div FP
                      averageHeight == RoundDiv(totalHeight, neighborCount)
                      currentHeight == ReadAt(heightData, index)
                      averageColor == [ch \in 1..3 |-> RoundDiv(totalColor[ch], neighborCount)]
                      currentColor == ColorFromArray(colorData, index)
                  IN  [heightData |-> WriteAt(acc.heightData, index,
                                         currentHeight +
                                         RoundDiv((averageHeight - currentHeight) * strength, FP)),
                       colorData |-> ColorToArray(acc.colorData, index,
                                         LerpColor(currentColor, averageColor, strength))]
             ELSE acc
    ELSE acc

applySmooth(heightData, colorData, intersectionPoint, brush) ==
    ForEachVertex(LAMBDA acc, x, y :
                      SmoothVertex(acc, x, y, heightData, colorData, intersectionPoint, brush),
                  [heightData |-> heightData, colorData |-> colorData], 0)

\* mutant: paints under water too
PaintVertex_anyHeight(acc, x, y, heightData, intersectionPoint, brush, paintColor) ==
    IF InBrush(x, y, intersectionPoint, brush)
    THEN LET index == y * VERTICES_X + x
             falloff == Falloff(x, y, intersectionPoint, brush)
             strength == (DEFAULT_STRENGTH * falloff) \div FP
             existingColor == ColorFromArray(acc.colorData, index)
         IN  [acc EXCEPT !.colorData =
                 ColorToArray(acc.colorData, index,
                              LerpColor(existingColor, paintColor, strength))]
    ELSE acc

PaintVertex(acc, x, y, heightData, intersectionPoint, brush, paintColor) ==
    IF InBrush(x, y, intersectionPoint, brush)
    THEN LET index == y * VERTICES_X + x
             currentHeight == ReadAt(heightData, index)
         IN  IF currentHeight >= LAND_LEVEL
             THEN LET falloff == Falloff(x, y, intersectionPoint, brush)
                      strength == (DEFAULT_STRENGTH * falloff) \div FP
                      existingColor == ColorFromArray(acc.colorData, index)
                  IN  [acc EXCEPT !.colorData =
                          ColorToArray(acc.colorData, index,
                                       LerpColor(existingColor, paintColor, strength))]
             ELSE acc
    ELSE acc

\* returns the new colorData only
applyPaint(heightData, colorData, intersectionPoint, brush, paintColor) ==
    ForEachVertex(LAMBDA acc, x, y :
                      PaintVertex(acc, x, y, heightData, intersectionPoint, brush, paintColor),
                  [heightData |-> heightData, colorData |-> colorData], 0).colorData

\* Color.convertSRGBToLinear, per channel, tabulated for the 256 byte values:
\* 255 * (c < 0.04045 ? c / 12.92 : ((c + 0.055) / 1.055) ^ 2.4), c = byte / 255
SRGB_TO_LINEAR ==
  <<
    0, 0, 0, 0, 0, 0, 0, 1, 1, 1, 1, 1, 1, 1, 1, 1,
    1, 1, 2, 2, 2, 2, 2, 2, 2, 2, 3, 3, 3, 3, 3, 3,
    4, 4, 4, 4, 4, 5, 5, 5, 5, 6, 6, 6, 6, 7, 7, 7,
    8, 8, 8, 8, 9, 9, 9, 10, 10, 10, 11, 11, 12, 12, 12, 13,
    13, 13, 14, 14, 15, 15, 16, 16, 17, 17, 17, 18, 18, 19, 19, 20,
    20, 21, 22, 22, 23, 23, 24, 24, 25, 25, 26, 27, 27, 28, 29, 29,
    30, 30, 31, 32, 32, 33, 34, 35, 35, 36, 37, 37, 38, 39, 40, 41,
    41, 42, 43, 44, 45, 45, 46, 47, 48, 49, 50, 51, 51, 52, 53, 54,
    55, 56, 57, 58, 59, 60, 61, 62, 63, 64, 65, 66, 67, 68, 69, 70,
    71, 72, 73, 74, 76, 77, 78, 79, 80, 81, 82, 84, 85, 86, 87, 88,
    90, 91, 92, 93, 95, 96, 97, 99, 100, 101, 103, 104, 105, 107, 108, 109,
    111, 112, 114, 115, 116, 118, 119, 121, 122, 124, 125, 127, 128, 130, 131, 133,
    134, 136, 138, 139, 141, 142, 144, 146, 147, 149, 151, 152, 154, 156, 157, 159,
    161, 163, 164, 166, 168, 170, 171, 173, 175, 177, 179, 181, 183, 184, 186, 188,
    190, 192, 194, 196, 198, 200, 202, 204, 206, 208, 210, 212, 214, 216, 218, 220,
    222, 224, 226, 229, 231, 233, 235, 237, 239, 242, 244, 246, 248, 250, 253, 255
  >>

convertSRGBToLinear(color) == [ch \in 1..3 |-> SRGB_TO_LINEAR[color[ch] + 1]]

\* Math.cos / Math.sin of the rotation, for the quarter turns the model draws
CosDeg(deg) == CASE deg % 360 = 0 -> 1 [] deg % 360 = 90 -> 0
                 [] deg % 360 = 180 -> -1 [] OTHER -> 0
SinDeg(deg) == CASE deg % 360 = 0 -> 0 [] deg % 360 = 90 -> 1
                 [] deg % 360 = 180 -> 0 [] OTHER -> -1

\* getPixel: ctx.getImageData at the wrapped pixel coordinates
getPixel(texture, x_raw, y_raw) ==
    texture.pixels[<<x_raw % texture.width, y_raw % texture.height>>]

\* the bilinear sample of the texture at (u_pixel, v_pixel), both in 1/FP
BilinearSample(texture, u_pixel, v_pixel) ==
    LET texX0 == u_pixel \div FP
        texY0 == v_pixel \div FP
        fracX == u_pixel - texX0 * FP
        fracY == v_pixel - texY0 * FP
        p00 == getPixel(texture, texX0, texY0)
        p10 == getPixel(texture, texX0 + 1, texY0)
        p01 == getPixel(texture, texX0, texY0 + 1)
        p11 == getPixel(texture, texX0 + 1, texY0 + 1)
    IN  [ch \in 1..3 |->
            LET top == p00[ch] * (FP - fracX) + p10[ch] * fracX
                bottom == p01[ch] * (FP - fracX) + p11[ch] * fracX
            IN  RoundDiv(top * (FP - fracY) + bottom * fracY, FP * FP)]

TexturePaintVertex(acc, x, y, heightData, intersectionPoint, brush, texture, textureSettings) ==
    IF InBrush(x, y, intersectionPoint, brush)
    THEN LET index == y * VERTICES_X + x
             currentHeight == ReadAt(heightData, index)
         IN  IF currentHeight >= LAND_LEVEL
             THEN LET dxInitial == DxScaled(x, intersectionPoint)
                      dzInitial == DzScaled(y, intersectionPoint)
                      cosR == CosDeg(textureSettings.rotation)
                      sinR == SinDeg(textureSettings.rotation)
                      dx == dxInitial * cosR - dzInitial * sinR
                      dz == dxInitial * sinR + dzInitial * cosR
                      u == (dx * FP) \div (2 * BrushRadiusScaled(brush)) + FP \div 2
                      v == (dz * FP) \div (2 * BrushRadiusScaled(brush)) + FP \div 2
                      u_scaled == (u * textureSettings.scale) \div FP
                      v_scaled == (v * textureSettings.scale) \div FP
                      u_pixel == u_scaled * texture.width - FP \div 2
                      v_pixel == (FP - v_scaled) * texture.height - FP \div 2
                      textureColor ==
                          convertSRGBToLinear(BilinearSample(texture, u_pixel, v_pixel))
                      falloff == Falloff(x, y, intersectionPoint, brush)
                      strength == (textureSettings.blendWeight * falloff) \div FP
                      existingColor == ColorFromArray(acc.colorData, index)
                  IN  [acc EXCEPT !.colorData =
                          ColorToArray(acc.colorData, index,
                                       LerpColor(existingColor, textureColor, strength))]
             ELSE acc
    ELSE acc

\* returns the new colorData only; without a canvas context, a plain copy
applyTexturePaint(heightData, colorData, intersectionPoint, brush, texture, textureSettings) ==
    IF ~texture.ctx THEN colorData
    ELSE ForEachVertex(LAMBDA acc, x, y :
                           TexturePaintVertex(acc, x, y, heightData, intersectionPoint,
                                              brush, texture, textureSettings),
                       [heightData |-> heightData, colorData |-> colorData], 0).colorData

\* mutant: Plane without the test currentHeight >= targetHeight
PlaneVertex_twoWay(acc, x, y, intersectionPoint, brush, targetHeight) ==
    IF InBrush(x, y, intersectionPoint, brush)
    THEN LET index == y * VERTICES_X + x
             currentHeight == ReadAt(acc.heightData, index)
         IN  [acc EXCEPT !.heightData =
                 WriteAt(acc.heightData, index,
                         currentHeight +
                         RoundDiv((targetHeight - currentHeight) * FIXED_STRENGTH, FP))]
    ELSE acc

PlaneVertex(acc, x, y, intersectionPoint, brush, targetHeight) ==
    IF InBrush(x, y, intersectionPoint, brush)
    THEN LET index == y * VERTICES_X + x
             currentHeight == ReadAt(acc.heightData, index)
         IN  IF currentHeight >= targetHeight THEN acc
             ELSE LET distance == Isqrt(DistSqScaled(x, y, intersectionPoint))
                      brushRadius == BrushRadiusScaled(brush)
                      falloff == IF CoreDen * distance > CoreNum * brushRadius
                                 THEN FP - smoothStep(CoreNum * brushRadius,
                                                      CoreDen * brushRadius,
                                                      CoreDen * distance)
                                 ELSE FP
                      strength == (FIXED_STRENGTH * falloff) \div FP
                      newHeight == currentHeight +
                                   RoundDiv((targetHeight - currentHeight) * strength, FP)
                      newColor == calculateColorFromHeight(newHeight)
                      currentColor == ColorFromArray(acc.colorData, index)
                  IN  [heightData |-> WriteAt(acc.heightData, index, newHeight),
                       colorData |-> ColorToArray(acc.colorData, index,
                                        LerpColor(currentColor, newColor, strength))]
    ELSE acc

applyPlane(heightData, colorData, intersectionPoint, brush, targetHeight) ==
    ForEachVertex(LAMBDA acc, x, y :
                      PlaneVertex(acc, x, y, intersectionPoint, brush, targetHeight),
                  [heightData |-> heightData, colorData |-> colorData], 0)

GlobalSmoothVertex(acc, x, y, readHeightData, strength) ==
    LET ns == Neighbors(x, y)
        neighborCount == Cardinality(ns)
        totalHeight == SumOver(LAMBDA n : ReadAt(readHeightData, n[2] * VERTICES_X + n[1]), ns)
    IN  IF neighborCount > 0
        THEN LET averageHeight == RoundDiv(totalHeight, neighborCount)
                 index == y * VERTICES_X + x
                 currentHeight == ReadAt(readHeightData, index)
             IN  [acc EXCEPT !.heightData =
                     WriteAt(acc.heightData, index,
                             currentHeight +
                             RoundDiv((averageHeight - currentHeight) * strength, FP))]
        ELSE acc

\* strength in 1/FP
applyGlobalSmooth(heightData, strength) ==
    LET newHeightData ==
            ForEachVertex(LAMBDA acc, x, y : GlobalSmoothVertex(acc, x, y, heightData, strength),
                          [heightData |-> heightData], 0).heightData
    IN  [heightData |-> newHeightData, colorData |-> generateInitialColorData(newHeightData)]

\* the indices of the land vertices (height at or above LAND_LEVEL)
LandIndices(heightData) == {i \in 1..Len(heightData) : heightData[i] >= LAND_LEVEL}

\* strength in 1/FP
applyGlobalFlatten(heightData, strength) ==
    LET land == LandIndices(heightData)
        landVertexCount == Cardinality(land)
        totalLandHeight == SumOver(LAMBDA i : heightData[i], land)
    IN  IF landVertexCount = 0
        THEN [heightData |-> heightData, colorData |-> generateInitialColorData(heightData)]
        ELSE LET averageLandHeight == RoundDiv(totalLandHeight, landVertexCount)
                 newHeightData ==
                     [i \in 1..Len(heightData) |->
                         IF heightData[i] >= LAND_LEVEL
                         THEN heightData[i] +
                              RoundDiv((averageLandHeight - heightData[i]) * strength, FP)
                         ELSE heightData[i]]
             IN  [heightData |-> newHeightData,
                  colorData |-> generateInitialColorData(newHeightData)]

\* mutant: Paint in texture mode needs only the texture
applyBrush_textureOnly(heightData, colorData, intersectionPoint, tool, brush, options) ==
    CASE tool = "Raise" ->
            Some(applyRaiseLower(heightData, colorData, intersectionPoint, brush, TRUE))
      [] tool = "Lower" ->
            Some(applyRaiseLower(heightData, colorData, intersectionPoint, brush, FALSE))
      [] tool = "Flatten" ->
            IF ~IsDefined(options.targetHeight) THEN Undefined
            ELSE Some(applyFlatten(heightData, colorData, intersectionPoint, brush,
                                   Get(options.targetHeight)))
      [] tool = "Smooth" ->
            Some(applySmooth(heightData, colorData, intersectionPoint, brush))
      [] tool = "Plane" ->
            IF ~IsDefined(options.targetHeight) THEN Undefined
            ELSE Some(applyPlane(heightData, colorData, intersectionPoint, brush,
                                 Get(options.targetHeight)))
      [] tool = "Paint" ->
            IF options.paintMode = Some("texture") /\ IsDefined(options.paintTexture)
            THEN Some([heightData |-> heightData,
                       colorData |-> applyTexturePaint(heightData, colorData, intersectionPoint,
                                        brush, Get(options.paintTexture),
                                        IF IsDefined(options.textureSettings)
                                        THEN Get(options.textureSettings)
                                        ELSE [scale |-> FP, rotation |-> 0, blendWeight |-> FP])])
            ELSE IF options.paintMode = Some("color") /\ IsDefined(options.paintColor)
            THEN Some([heightData |-> heightData,
                       colorData |-> applyPaint(heightData, colorData, intersectionPoint,
                                                brush, Get(options.paintColor))])
            ELSE Undefined
      [] OTHER -> Undefined

\* applyBrush: Some([heightData, colorData]) or Undefined for the source's null
applyBrush(heightData, colorData, intersectionPoint, tool, brush, options) ==
    CASE tool = "Raise" ->
            Some(applyRaiseLower(heightData, colorData, intersectionPoint, brush, TRUE))
      [] tool = "Lower" ->
            Some(applyRaiseLower(heightData, colorData, intersectionPoint, brush, FALSE))
      [] tool = "Flatten" ->
            IF ~IsDefined(options.targetHeight) THEN Undefined
            ELSE Some(applyFlatten(heightData, colorData, intersectionPoint, brush,
                                   Get(options.targetHeight)))
      [] tool = "Smooth" ->
            Some(applySmooth(heightData, colorData, intersectionPoint, brush))
      [] tool = "Plane" ->
            IF ~IsDefined(options.targetHeight) THEN Undefined
            ELSE Some(applyPlane(heightData, colorData, intersectionPoint, brush,
                                 Get(options.targetHeight)))
      [] tool = "Paint" ->
            IF options.paintMode = Some("texture") /\ IsDefined(options.paintTexture)
               /\ IsDefined(options.textureSettings)
            THEN Some([heightData |-> heightData,
                       colorData |-> applyTexturePaint(heightData, colorData, intersectionPoint,
                                        brush, Get(options.paintTexture),
                                        Get(options.textureSettings))])
            ELSE IF options.paintMode = Some("color") /\ IsDefined(options.paintColor)
            THEN Some([heightData |-> heightData,
                       colorData |-> applyPaint(heightData, colorData, intersectionPoint,
                                                brush, Get(options.paintColor))])
            ELSE Undefined
      [] OTHER -> Undefined

-----------------------------------------------------------------------------
(* useUndoableState *)

\* while (newHistory.length > MAX_HISTORY) newHistory.shift();
RECURSIVE LimitHistory(_)
LimitHistory(newHistory) ==
    IF Len(newHistory) > MAX_HISTORY
    THEN LimitHistory(Tail(newHistory))
    ELSE newHistory

\* mutant: the redo future is not cut off before the new state is appended
setState_keepFuture(h, c, newState) ==
    LET newHistory == LimitHistory(Append(h, newState))
    IN  [history |-> newHistory, currentIndex |-> Len(newHistory) - 1]

\* mutant: the cap drops the newest entries instead of the oldest
setState_dropBack(h, c, newState) ==
    LET newHistory == Append(SubSeq(h, 1, c + 1), newState)
        kept == IF Len(newHistory) > MAX_HISTORY
                THEN SubSeq(newHistory, 1, MAX_HISTORY)
                ELSE newHistory
    IN  [history |-> kept, currentIndex |-> Len(kept) - 1]

\* setState: history.slice(0, currentIndex + 1), push, limit, set both states
setState(h, c, newState) ==
    LET newHistory == LimitHistory(Append(SubSeq(h, 1, c + 1), newState))
    IN  [history |-> newHistory, currentIndex |-> Len(newHistory) - 1]

\* mutant: undo without the currentIndex > 0 guard
undo_unguarded(h, c) == c - 1

\* undo: the new currentIndex
undo(h, c) == IF c > 0 THEN c - 1 ELSE c

\* mutant: redo compares against history.length instead of history.length - 1
redo_offByOne(h, c) == IF c < Len(h) THEN c + 1 ELSE c

\* redo: the new currentIndex
redo(h, c) == IF c < Len(h) - 1 THEN c + 1 ELSE c

canUndo(h, c) == c > 0
canRedo(h, c) == c < Len(h) - 1

\* const state = history[currentIndex]
state(h, c) == h[c + 1]

-----------------------------------------------------------------------------
(* The variables of one specification, as the others hold them *)

BrushUnused == bIn = <<>> /\ bOut = <<>> /\ bReps = 0

EditorUnused == app = <<>> /\ editor = <<>> /\ stroke = <<>> /\ ev = <<>> /\ events = 0

CallsUnused == call = <<>> /\ ret = <<>>

HeapUnused == heap = <<>> /\ refs = <<>>

HistGhostsUnused == lastOp = "init" /\ before = <<>> /\ pushCount = 0 /\ evictions = 0

HistUnused ==
    /\ history = <<>>
    /\ currentIndex = 0
    /\ lastOp = "init"
    /\ before = <<>>
    /\ pushCount = 0
    /\ evictions = 0

-----------------------------------------------------------------------------
(* SpecHist: the hook driven directly.  Entries are numbered in order of  *)
(* creation, so entry 0 is the initial state.  The initial states are the *)
(* hook right after construction, and the hook after MAX_HISTORY - 2      *)
(* further commits with no undo in between (one below the cap).           *)

PrefillLens == {1, MAX_HISTORY - 1}

InitHist ==
    \E n \in PrefillLens :
        /\ history = [i \in 1..n |-> i - 1]
        /\ currentIndex = n - 1
        /\ pushCount = n
        /\ lastOp = "init"
        /\ before = [idx |-> n - 1, entry |-> n - 1, len |-> n, base |-> n,
                     op0 |-> "init", idx0 |-> n - 1]
        /\ evictions = 0
        /\ BrushUnused
        /\ EditorUnused
        /\ CallsUnused
        /\ HeapUnused

\* ghost: what the handler saw, and which handler ran before it
Snapshot ==
    [before EXCEPT !.idx = currentIndex,
                   !.entry = state(history, currentIndex),
                   !.len = Len(history),
                   !.op0 = lastOp,
                   !.idx0 = before.idx]

HistPush ==
    /\ pushCount - before.base < MaxPush
    /\ Len(history) - 1 - currentIndex <= MaxBranchDepth
    /\ LET r == setState(history, currentIndex, pushCount)
       IN  /\ history' = r.history
           /\ currentIndex' = r.currentIndex
    /\ evictions' = evictions +
          (IF currentIndex + 2 > MAX_HISTORY THEN currentIndex + 2 - MAX_HISTORY ELSE 0)
    /\ before' = Snapshot
    /\ pushCount' = pushCount + 1
    /\ lastOp' = "push"
    /\ UNCHANGED brushVars
    /\ UNCHANGED editorVars
    /\ UNCHANGED <<callVars, heapVars>>

HistUndo ==
    /\ currentIndex' = undo(history, currentIndex)
    /\ before' = Snapshot
    /\ lastOp' = "undo"
    /\ UNCHANGED <<history, pushCount, evictions>>
    /\ UNCHANGED brushVars
    /\ UNCHANGED editorVars
    /\ UNCHANGED <<callVars, heapVars>>

HistRedo ==
    /\ currentIndex' = redo(history, currentIndex)
    /\ before' = Snapshot
    /\ lastOp' = "redo"
    /\ UNCHANGED <<history, pushCount, evictions>>
    /\ UNCHANGED brushVars
    /\ UNCHANGED editorVars
    /\ UNCHANGED <<callVars, heapVars>>

NextHist == HistPush \/ HistUndo \/ HistRedo

SpecHist == InitHist /\ [][NextHist]_vars

-----------------------------------------------------------------------------
(* SpecBrush: applyBrush and the two global operations as pure functions   *)
(* of enumerated arguments.  Positions and brush sizes are in PlanarUnit   *)
(* world units.                                                            *)

\* applications of the same arguments to the previous result
MaxRepeat == 2

\* a grid with the given height at every vertex (x, y) and the colours
\* generateInitialColorData gives it
GridOf(HeightAt(_, _)) ==
    LET heightData == [k \in 1..(VERTICES_X * VERTICES_Y) |->
                          HeightAt((k - 1) % VERTICES_X, (k - 1) \div VERTICES_X)]
    IN  [heightData |-> heightData, colorData |-> generateInitialColorData(heightData)]

\* App: initialHeightData filled with SEA_FLOOR_LEVEL, initialColorData
InitialGrid == GridOf(LAMBDA x, y : SEA_FLOOR_LEVEL)

InputGrids ==
    { InitialGrid,
      GridOf(LAMBDA x, y : 10),
      GridOf(LAMBDA x, y : IF x = 1 /\ y = 1 THEN 30 ELSE SEA_FLOOR_LEVEL),
      GridOf(LAMBDA x, y : -5 + 20 * x + 7 * y),
      GridOf(LAMBDA x, y : TERRAIN_WIDTH - 700 * x),
      GridOf(LAMBDA x, y : IF x = 0 THEN SEA_FLOOR_LEVEL - 15 ELSE TERRAIN_WIDTH + 15 * y) }

InputPoints == { [x |-> 0, z |-> 0], [x |-> -50, z |-> -50], [x |-> 20, z |-> -30] }

\* 10 is the App's initial size (10000), 40 the slider's maximum (40000)
InputSizes == {10, 40, 120}

SampleTexture ==
    [width |-> 2, height |-> 2, ctx |-> TRUE,
     pixels |-> (<<0, 0>> :> <<255, 0, 0>>) @@ (<<1, 0>> :> <<0, 255, 0>>) @@
                (<<0, 1>> :> <<0, 0, 255>>) @@ (<<1, 1>> :> <<128, 128, 128>>)]

InputOptions ==
    [targetHeight : {Undefined, Some(0), Some(20)},
     paintColor : {Undefined, Some(grassColor)},
     paintMode : {Undefined, Some("color"), Some("texture")},
     paintTexture : {Undefined, Some(SampleTexture)},
     textureSettings : {Undefined,
                        Some([scale |-> FP, rotation |-> 0, blendWeight |-> FP \div 2]),
                        Some([scale |-> 2 * FP, rotation |-> 90, blendWeight |-> FP])}]

BrushCall(in) ==
    applyBrush(in.grid.heightData, in.grid.colorData, in.point, in.tool, in.brush, in.options)

InitBrush ==
    /\ bIn \in [grid : InputGrids, point : InputPoints, tool : Tool,
                brush : [size : InputSizes], options : InputOptions]
    /\ bOut = Undefined
    /\ bReps = 0
    /\ HistUnused
    /\ EditorUnused
    /\ CallsUnused
    /\ HeapUnused

BrushApply ==
    /\ bReps = 0
    /\ bOut' = BrushCall(bIn)
    /\ bReps' = 1
    /\ UNCHANGED bIn
    /\ UNCHANGED histVars
    /\ UNCHANGED editorVars
    /\ UNCHANGED <<callVars, heapVars>>

\* the same call again on the grid the previous call returned
BrushAgain ==
    /\ bReps >= 1
    /\ bReps < MaxRepeat
    /\ IsDefined(bOut)
    /\ bIn' = [bIn EXCEPT !.grid = Get(bOut)]
    /\ bOut' = BrushCall(bIn')
    /\ bReps' = bReps + 1
    /\ UNCHANGED histVars
    /\ UNCHANGED editorVars
    /\ UNCHANGED <<callVars, heapVars>>

NextBrush == BrushApply \/ BrushAgain

SpecBrush == InitBrush /\ [][NextBrush]_vars

-----------------------------------------------------------------------------
(* Spec: App with its TerrainEditor and Toolbar.                           *)
(* A grid object carries an id standing for its JavaScript identity: the   *)
(* effect that copies committedState into liveState depends on identity.   *)
(* A handler that sets state in a discrete event (pointerup, keydown,      *)
(* click) is followed by the re-render in the same step; after pointermove *)
(* the new liveState waits for Render, and until then the listeners        *)
(* registered on the mount still hold the liveState of the last render.    *)

\* events handled in one run
MaxEvents == 5

NewObject(datas, id) ==
    [id |-> id, heightData |-> datas.heightData, colorData |-> datas.colorData]

GridValue(g) == [heightData |-> g.heightData, colorData |-> g.colorData]

\* PAINT_PALETTE[0].color
initialPaintColor == grassColor

\* useState<BrushSettings>({ size: 10000 }), in PlanarUnit
brushSettings == [size |-> 10000 \div PlanarUnit]

\* the points a ray from the pointer hits: the two opposite corner vertices
HitPoints ==
    { [x |-> -(TERRAIN_WIDTH \div PlanarUnit) \div 2, z |-> -(TERRAIN_HEIGHT \div PlanarUnit) \div 2,
       vx |-> 0, vy |-> 0],
      [x |-> (TERRAIN_WIDTH \div PlanarUnit) \div 2, z |-> (TERRAIN_HEIGHT \div PlanarUnit) \div 2,
       vx |-> TERRAIN_SEGMENTS_X, vy |-> TERRAIN_SEGMENTS_Y] }

\* intersection.point.y: the height of the mesh updateTerrainGeometry built
\* from the heightData prop
IntersectionY(heightData, point) == ReadAt(heightData, point.vy * (TERRAIN_SEGMENTS_X + 1) + point.vx)

committedState == state(history, currentIndex)

\* the next render with its effect: setLiveState(committedState) when
\* committedState is another object than at the previous render
LiveAfterRender(newCommitted, pendingLive) ==
    IF newCommitted.id # committedState.id THEN newCommitted ELSE pendingLive

Init ==
    /\ history = << NewObject(InitialGrid, 0) >>
    /\ currentIndex = 0
    /\ app = [liveState |-> NewObject(InitialGrid, 0), tool |-> "Raise",
              paintMode |-> "color", paintTexture |-> Undefined, nextId |-> 1]
    /\ editor = [isPainting |-> FALSE, strokeTargetHeight |-> Undefined,
                 controlsEnabled |-> TRUE, liveState |-> NewObject(InitialGrid, 0)]
    /\ stroke = [ideal |-> InitialGrid, calls |-> 0, applied |-> 0,
                 tool |-> "Raise", target |-> Undefined, used |-> {}]
    /\ ev = [type |-> "init", wasPainting |-> FALSE, returned |-> "",
             history |-> history, currentIndex |-> currentIndex,
             liveState |-> app.liveState, stroke |-> stroke]
    /\ events = 0
    /\ HistGhostsUnused
    /\ BrushUnused
    /\ CallsUnused
    /\ HeapUnused

\* the ghost record of an event of the given type
Event(type, returned) ==
    [type |-> type, wasPainting |-> editor.isPainting, returned |-> returned,
     history |-> history, currentIndex |-> currentIndex,
     liveState |-> app.liveState, stroke |-> stroke]

Handled(type, returned) ==
    /\ events < MaxEvents
    /\ events' = events + 1
    /\ ev' = Event(type, returned)
    /\ UNCHANGED histGhosts
    /\ UNCHANGED brushVars
    /\ UNCHANGED <<callVars, heapVars>>

\* onPointerDown, left button, the ray misses the terrain
PointerDownMiss ==
    /\ Handled("pointerdown", "miss")
    /\ UNCHANGED <<history, currentIndex, app, editor, stroke>>

\* the stroke's target as the pointer-down at point samples it (ghost): the
\* height of the surface there, for Plane at least LAND_LEVEL
SampledAtPointerDown(point) ==
    LET y == IntersectionY(editor.liveState.heightData, point)
    IN  IF app.tool = "Plane" THEN Max(y, LAND_LEVEL) ELSE y

\* onPointerDown, left button, the ray hits the terrain at point
PointerDown(point) ==
    /\ Handled("pointerdown", "hit")
    /\ LET y == IntersectionY(editor.liveState.heightData, point)
           targetHeight == IF app.tool = "Plane" /\ y < LAND_LEVEL THEN LAND_LEVEL ELSE y
       IN  editor' = [editor EXCEPT
                         !.isPainting = TRUE,
                         !.controlsEnabled = FALSE,
                         !.strokeTargetHeight =
                             IF app.tool \in {"Flatten", "Plane"}
                             THEN Some(targetHeight) ELSE @]
    /\ LET sampled == IF app.tool \in {"Flatten", "Plane"}
                      THEN Some(SampledAtPointerDown(point)) ELSE Undefined
       IN  stroke' = IF editor.isPainting
                     THEN [stroke EXCEPT !.tool = app.tool, !.target = sampled, !.used = {}]
                     ELSE [ideal |-> GridValue(app.liveState), calls |-> 0, applied |-> 0,
                           tool |-> app.tool, target |-> sampled, used |-> {}]
    /\ UNCHANGED <<history, currentIndex, app>>

\* handleTerrainUpdate's options
UpdateOptions(sampledHeight) ==
    [targetHeight |-> IF app.tool \in {"Flatten", "Plane"} THEN sampledHeight ELSE Undefined,
     paintColor |-> Some(initialPaintColor),
     paintMode |-> Some(app.paintMode),
     paintTexture |-> app.paintTexture,
     textureSettings |-> Undefined]

\* mutant: the pointer-move samples the surface under the pointer
sampledHeight_resampled(point) ==
    Some(IntersectionY(editor.liveState.heightData, point))

\* onPointerMove's second argument: strokeTargetHeightRef.current ?? undefined
sampledHeight(point) == editor.strokeTargetHeight

\* handleTerrainUpdate's applyBrush call on the given grid
UpdateCall(grid, point) ==
    applyBrush(grid.heightData, grid.colorData, point, app.tool, brushSettings,
               UpdateOptions(sampledHeight(point)))

\* onPointerMove: the ray misses the terrain, or no stroke is active
PointerMoveIdle ==
    /\ Handled("pointermove", "idle")
    /\ UNCHANGED <<history, currentIndex, app, editor, stroke>>

\* onPointerMove during a stroke, the ray hits the terrain at point:
\* onTerrainUpdate(intersection.point, strokeTargetHeightRef.current ?? undefined)
PointerMove(point) ==
    /\ editor.isPainting
    /\ LET newDatas == UpdateCall(editor.liveState, point)
           idealDatas == UpdateCall(stroke.ideal, point)
       IN  /\ Handled("pointermove", IF IsDefined(newDatas) THEN "datas" ELSE "none")
           /\ app' = IF IsDefined(newDatas)
                     THEN [app EXCEPT !.liveState = NewObject(Get(newDatas), app.nextId),
                                      !.nextId = @ + 1]
                     ELSE app
           /\ stroke' = [ideal |-> IF IsDefined(idealDatas) THEN Get(idealDatas) ELSE stroke.ideal,
                         calls |-> stroke.calls + 1,
                         applied |-> stroke.applied + (IF IsDefined(newDatas) THEN 1 ELSE 0),
                         tool |-> stroke.tool, target |-> stroke.target,
                         used |-> stroke.used \cup
                                  (IF app.tool \in {"Flatten", "Plane"}
                                   THEN { UpdateOptions(sampledHeight(point)).targetHeight }
                                   ELSE {})]
    /\ UNCHANGED <<history, currentIndex, editor>>

\* React renders the liveState set by pointermove; the effect re-registers
\* the listeners with the new handleTerrainUpdate and handlePaintEnd
Render ==
    /\ editor.liveState # app.liveState
    /\ editor' = [editor EXCEPT !.liveState = app.liveState]
    /\ UNCHANGED <<history, currentIndex, app, stroke, ev, events>>
    /\ UNCHANGED histGhosts
    /\ UNCHANGED brushVars
    /\ UNCHANGED <<callVars, heapVars>>

\* a handler that changed the hook's or App's state, then the render
Rerender(newHistory, newIndex, newApp, newEditor) ==
    LET live == LiveAfterRender(state(newHistory, newIndex), newApp.liveState)
    IN  /\ history' = newHistory
        /\ currentIndex' = newIndex
        /\ app' = [newApp EXCEPT !.liveState = live]
        /\ editor' = [newEditor EXCEPT !.liveState = live]

\* mutant: the pointer-up leaves the stroke's refs as they are
PointerUp_keepsStroke(over) ==
    /\ Handled("pointerup", over)
    /\ LET pushed == setState(history, currentIndex, editor.liveState)
       IN  Rerender(pushed.history, pushed.currentIndex, app, editor)
    /\ UNCHANGED stroke

\* onPointerUp, left button, wherever the pointer is (over the terrain or
\* off it: the handler casts no ray): onPaintEnd() is handlePaintEnd,
\* setCommittedState(liveState) with the liveState of the last render
PointerUp(over) ==
    /\ Handled("pointerup", over)
    /\ LET pushed == setState(history, currentIndex, editor.liveState)
       IN  Rerender(pushed.history, pushed.currentIndex, app,
                    [editor EXCEPT !.isPainting = FALSE,
                                   !.controlsEnabled = TRUE,
                                   !.strokeTargetHeight = Undefined])
    /\ UNCHANGED stroke

\* Ctrl/Cmd+Z in onKeyDown, or the toolbar's Undo button
Undo ==
    /\ Handled("undo", "")
    /\ Rerender(history, undo(history, currentIndex), app, editor)
    /\ UNCHANGED stroke

\* Ctrl+Y or Ctrl/Cmd+Shift+Z in onKeyDown, or the toolbar's Redo button
Redo ==
    /\ Handled("redo", "")
    /\ Rerender(history, redo(history, currentIndex), app, editor)
    /\ UNCHANGED stroke

\* a tool button of the toolbar
SetTool(t) ==
    /\ t # app.tool
    /\ Handled("setTool", "")
    /\ Rerender(history, currentIndex, [app EXCEPT !.tool = t], editor)
    /\ UNCHANGED stroke

\* a paint mode button of the toolbar
SetPaintMode(mode) ==
    /\ mode # app.paintMode
    /\ Handled("setPaintMode", "")
    /\ Rerender(history, currentIndex, [app EXCEPT !.paintMode = mode], editor)
    /\ UNCHANGED stroke

\* handleImportTexture, the image loaded
ImportTexture ==
    /\ Handled("importTexture", "")
    /\ Rerender(history, currentIndex,
                [app EXCEPT !.paintTexture = Some(SampleTexture), !.paintMode = "texture"],
                editor)
    /\ UNCHANGED stroke

\* a global operation's result pushed by setCommittedState
PushGlobal(datas) ==
    LET pushed == setState(history, currentIndex, NewObject(datas, app.nextId))
    IN  Rerender(pushed.history, pushed.currentIndex, [app EXCEPT !.nextId = @ + 1], editor)

\* handleErosion
Erosion ==
    /\ Handled("erosion", "")
    /\ PushGlobal(applyGlobalSmooth(committedState.heightData, FP \div 10))
    /\ UNCHANGED stroke

\* handleGlobalFlatten
GlobalFlatten ==
    /\ Handled("globalFlatten", "")
    /\ PushGlobal(applyGlobalFlatten(committedState.heightData, FP \div 10))
    /\ UNCHANGED stroke

Next ==
    \/ PointerDownMiss
    \/ \E point \in HitPoints : PointerDown(point)
    \/ PointerMoveIdle
    \/ \E point \in HitPoints : PointerMove(point)
    \/ Render
    \/ \E over \in {"hit", "miss"} : PointerUp(over)
    \/ Undo
    \/ Redo
    \/ \E t \in Tool : SetTool(t)
    \/ \E mode \in {"color", "texture"} : SetPaintMode(mode)
    \/ ImportTexture
    \/ Erosion
    \/ GlobalFlatten

Spec == Init /\ [][Next]_vars

-----------------------------------------------------------------------------
(* exportService: the two mesh extractions and exportModel.  The grid the  *)
(* export reads is ExportSegmentsX by ExportSegmentsY cells, wide enough   *)
(* for the padding of 2 to be clipped on one side and not on the other.    *)
(* Plane positions are in half cells (TERRAIN_WIDTH / (2 * segments)).     *)

\* TERRAIN_SEGMENTS_X and TERRAIN_SEGMENTS_Y as the export sees them
ExportSegmentsX == 5
ExportSegmentsY == 4

\* mutant: a padding of one cell
padding_one == 2 - 1

\* const padding = 2
padding == 2

\* mutant: a vertex at sea level counts as sculpted
AboveWater_orEqual(height) == height >= LAND_LEVEL

\* heightData[index] > LAND_LEVEL
AboveWater(height) == height > LAND_LEVEL

ExportVertices ==
    { <<x, y>> : x \in 0..ExportSegmentsX, y \in 0..ExportSegmentsY }

ExportIndex(x, y) == y * (ExportSegmentsX + 1) + x

SetMin(S) == CHOOSE m \in S : \A n \in S : m <= n
SetMax(S) == CHOOSE m \in S : \A n \in S : m >= n

\* step 1 of createTrimmedTerrainMesh: the vertices above water
Sculpted(heightData) ==
    { v \in ExportVertices : AboveWater(ReadAt(heightData, ExportIndex(v[1], v[2]))) }

\* new THREE.PlaneGeometry(w, h, segmentsX, segmentsY).rotateX(-PI / 2):
\* vertex (ix, iy) is at x = ix * w / segmentsX - w / 2, z = iy * h / segmentsY - h / 2
PlaneGeometryX(segments, i) == 2 * i - segments

\* createTrimmedTerrainMesh: null, or the mesh with its geometry's vertices
\* (by newIndex) and its position
createTrimmedTerrainMesh(heightData, colorData) ==
    LET found == Sculpted(heightData)
    IN  IF found = {} THEN Undefined
        ELSE LET minX == Max(0, SetMin({ v[1] : v \in found }) - padding)
                 minY == Max(0, SetMin({ v[2] : v \in found }) - padding)
                 maxX == Min(ExportSegmentsX, SetMax({ v[1] : v \in found }) + padding)
                 maxY == Min(ExportSegmentsY, SetMax({ v[2] : v \in found }) + padding)
                 segmentsX == maxX - minX
                 segmentsY == maxY - minY
             IN  IF segmentsX <= 0 \/ segmentsY <= 0 THEN Undefined
                 ELSE Some([segmentsX |-> segmentsX, segmentsY |-> segmentsY,
                       vertices |->
                           [newIndex \in 0..((segmentsX + 1) * (segmentsY + 1) - 1) |->
                               LET x == newIndex % (segmentsX + 1)
                                   y == newIndex \div (segmentsX + 1)
                                   originalIndex == ExportIndex(minX + x, minY + y)
                               IN  [x |-> PlaneGeometryX(segmentsX, x),
                                    y |-> Max(ReadAt(heightData, originalIndex), LAND_LEVEL),
                                    z |-> PlaneGeometryX(segmentsY, y),
                                    color |-> << ReadAt(colorData, originalIndex * 3),
                                                 ReadAt(colorData, originalIndex * 3 + 1),
                                                 ReadAt(colorData, originalIndex * 3 + 2) >>]],
                       position |-> [x |-> (minX + maxX) - ExportSegmentsX,
                                     z |-> (minY + maxY) - ExportSegmentsY]])

\* the corners of the cell at (x, y), in the order of the corners array
CellCorners(x, y) == << <<x, y>>, <<x + 1, y>>, <<x + 1, y + 1>>, <<x, y + 1>> >>

\* caseIndex: bit i is set when corner i is above water
CaseIndex(heightData, corners) ==
    LET bit(i) == IF AboveWater(ReadAt(heightData, ExportIndex(corners[i][1], corners[i][2])))
                  THEN 2 ^ (i - 1) ELSE 0
    IN  bit(1) + bit(2) + bit(3) + bit(4)

\* the vertexMap keys: `v_${x}_${y}` of a corner, and of the edge from corner
\* i (0-based) to the next one `e_${minx}_${miny}_${maxx}_${maxy}_${i % 2}`
CornerKey(c) == "v_" \o ToString(c[1]) \o "_" \o ToString(c[2])

\* mutant: the key keeps the order of the cell's corners
EdgeKey_directed(corners, i) ==
    LET c1 == corners[i + 1]
        c2 == corners[((i + 1) % 4) + 1]
    IN  "e_" \o ToString(c1[1]) \o "_" \o ToString(c1[2]) \o "_"
             \o ToString(c2[1]) \o "_" \o ToString(c2[2]) \o "_" \o ToString(i % 2)

EdgeKey(corners, i) ==
    LET c1 == corners[i + 1]
        c2 == corners[((i + 1) % 4) + 1]
    IN  "e_" \o ToString(Min(c1[1], c2[1])) \o "_" \o ToString(Min(c1[2], c2[2])) \o "_"
             \o ToString(Max(c1[1], c2[1])) \o "_" \o ToString(Max(c1[2], c2[2])) \o "_"
             \o ToString(i % 2)

\* heights handed to the export are in 1/ExportUnit world units
ExportUnit == 10 ^ 7

\* interpolateVertex's 1e-6
Epsilon == ExportUnit \div (10 ^ 6)

Abs(a) == IF a < 0 THEN -a ELSE a

\* (LAND_LEVEL - h1) / (h2 - h1) as a fraction with a denominator >= 0; the
\* denominator 0 stands for the division's NaN or Infinity
Parameter(h1, h2) ==
    IF h2 - h1 < 0 THEN [num |-> -(LAND_LEVEL - h1), den |-> -(h2 - h1)]
    ELSE [num |-> LAND_LEVEL - h1, den |-> h2 - h1]

\* getVertexPosition: x and z in cells (the world coordinates are an affine
\* image of them), y the height; a vector is x / den, y / den, z / den
getVertexPosition(heightData, x, y) ==
    [x |-> x, y |-> ReadAt(heightData, ExportIndex(x, y)), z |-> y, den |-> 1]

\* getVertexColor: r / den, g / den, b / den
getVertexColor(colorData, x, y) ==
    [r |-> ReadAt(colorData, ExportIndex(x, y) * 3),
     g |-> ReadAt(colorData, ExportIndex(x, y) * 3 + 1),
     b |-> ReadAt(colorData, ExportIndex(x, y) * 3 + 2), den |-> 1]

\* Vector3.lerpVectors(p1, p2, t) of two grid vertices
lerpVectors(p1, p2, t) ==
    [x |-> p1.x * t.den + (p2.x - p1.x) * t.num,
     y |-> p1.y * t.den + (p2.y - p1.y) * t.num,
     z |-> p1.z * t.den + (p2.z - p1.z) * t.num, den |-> t.den]

\* Color.lerpColors(c1, c2, t) of two grid vertices' colours
lerpColors(c1, c2, t) ==
    [r |-> c1.r * t.den + (c2.r - c1.r) * t.num,
     g |-> c1.g * t.den + (c2.g - c1.g) * t.num,
     b |-> c1.b * t.den + (c2.b - c1.b) * t.num, den |-> t.den]

\* interpolateVertex: p1 when the heights are closer than 1e-6
interpolateVertex(p1, p2, h1, h2) ==
    IF Abs(h1 - h2) < Epsilon THEN p1
    ELSE lerpVectors(p1, p2, Parameter(h1, h2))

\* addVertex: the index under the key, a new one when the key is not cached
addVertex(buffers, pos, color, key) ==
    IF \E i \in 1..Len(buffers.keys) : buffers.keys[i] = key
    THEN [buffers |-> buffers,
          index |-> (CHOOSE i \in 1..Len(buffers.keys) : buffers.keys[i] = key) - 1]
    ELSE [buffers |-> [keys |-> Append(buffers.keys, key),
                       vertices |-> Append(buffers.vertices, pos),
                       colors |-> Append(buffers.colors, color)],
          index |-> Len(buffers.keys)]

\* cornerData.map / edgePoints.map of addVertex: the indices v[0..3], e[0..3]
RECURSIVE AddVertices(_, _, _)
AddVertices(buffers, new, indices) ==
    IF new = << >> THEN [buffers |-> buffers, indices |-> indices]
    ELSE LET added == addVertex(buffers, Head(new).pos, Head(new).color, Head(new).key)
         IN  AddVertices(added.buffers, Tail(new), Append(indices, added.index))

\* the switch on caseIndex: the triangles of the cell, v and e 1-based
CellTriangles(caseIndex, v, e) ==
    CASE caseIndex = 1 -> << <<v[1], e[1], e[4]>> >>
      [] caseIndex = 2 -> << <<v[2], e[2], e[1]>> >>
      [] caseIndex = 3 -> << <<v[1], v[2], e[2]>>, <<v[1], e[2], e[4]>> >>
      [] caseIndex = 4 -> << <<v[3], e[3], e[2]>> >>
      [] caseIndex = 5 -> << <<v[1], e[1], e[4]>>, <<v[3], e[3], e[2]>> >>
      [] caseIndex = 6 -> << <<v[2], v[3], e[3]>>, <<v[2], e[3], e[1]>> >>
      [] caseIndex = 7 -> << <<v[1], v[2], v[3]>>, <<v[1], v[3], e[3]>>, <<v[1], e[3], e[4]>> >>
      [] caseIndex = 8 -> << <<v[4], e[4], e[3]>> >>
      [] caseIndex = 9 -> << <<v[1], v[4], e[3]>>, <<v[1], e[3], e[1]>> >>
      [] caseIndex = 10 -> << <<v[2], e[2], e[1]>>, <<v[4], e[4], e[3]>> >>
      [] caseIndex = 11 -> << <<v[1], v[2], e[2]>>, <<v[1], e[2], e[3]>>, <<v[1], e[3], v[4]>> >>
      [] caseIndex = 12 -> << <<v[4], v[3], e[2]>>, <<v[4], e[2], e[4]>> >>
      [] caseIndex = 13 -> << <<v[1], e[1], e[2]>>, <<v[1], e[2], v[3]>>, <<v[1], v[3], v[4]>> >>
      [] caseIndex = 14 -> << <<v[2], v[3], v[4]>>, <<v[2], v[4], e[4]>>, <<v[2], e[4], e[1]>> >>
      [] caseIndex = 15 -> << <<v[1], v[2], v[3]>>, <<v[1], v[3], v[4]>> >>

\* one iteration of the loop over the cells
MarchCell(acc, heightData, colorData, x, y) ==
    LET corners == CellCorners(x, y)
        caseIndex == CaseIndex(heightData, corners)
        cornerData == [i \in 1..4 |->
                          LET pos == getVertexPosition(heightData, corners[i][1], corners[i][2])
                          IN  [pos |-> pos, height |-> pos.y,
                               color |-> getVertexColor(colorData, corners[i][1], corners[i][2])]]
        next(i) == (i % 4) + 1
        edgePoints == [i \in 1..4 |->
                          interpolateVertex(cornerData[i].pos, cornerData[next(i)].pos,
                                            cornerData[i].height, cornerData[next(i)].height)]
        tValues == [i \in 1..4 |-> Parameter(cornerData[i].height, cornerData[next(i)].height)]
        edgeColors == [i \in 1..4 |->
                          lerpColors(cornerData[i].color, cornerData[next(i)].color, tValues[i])]
    IN  IF caseIndex = 0 THEN acc
        ELSE LET added == AddVertices([keys |-> acc.keys, vertices |-> acc.vertices,
                                       colors |-> acc.colors],
                              [i \in 1..4 |-> [pos |-> cornerData[i].pos,
                                               color |-> cornerData[i].color,
                                               key |-> CornerKey(corners[i])]]
                              \o [i \in 1..4 |-> [pos |-> edgePoints[i],
                                                  color |-> edgeColors[i],
                                                  key |-> EdgeKey(corners, i - 1)]],
                              << >>)
                 v == SubSeq(added.indices, 1, 4)
                 e == SubSeq(added.indices, 5, 8)
             IN  [keys |-> added.buffers.keys,
                  vertices |-> added.buffers.vertices,
                  colors |-> added.buffers.colors,
                  indices |-> acc.indices \o CellTriangles(caseIndex, v, e),
                  cells |-> Append(acc.cells, [x |-> x, y |-> y, caseIndex |-> caseIndex,
                                               v |-> v, e |-> e])]

\* (the test on acc.keys makes TLC evaluate acc before the next iteration)
RECURSIVE MarchLoop(_, _, _, _)
MarchLoop(acc, heightData, colorData, cell) ==
    IF cell >= ExportSegmentsX * ExportSegmentsY \/ Len(acc.keys) < 0 THEN acc
    ELSE MarchLoop(MarchCell(acc, heightData, colorData,
                             cell % ExportSegmentsX, cell \div ExportSegmentsX),
                   heightData, colorData, cell + 1)

\* createTerrainMeshForExport: null, or the mesh with its vertexMap keys, its
\* position and colour buffers (all in index order) and its index triples;
\* cells records, for every cell that was not skipped, the indices v and e
\* that addVertex returned to it (ghost)
createTerrainMeshForExport(heightData, colorData) ==
    LET built == MarchLoop([keys |-> << >>, vertices |-> << >>, colors |-> << >>,
                            indices |-> << >>, cells |-> << >>], heightData, colorData, 0)
    IN  IF Len(built.vertices) = 0 THEN Undefined ELSE Some(built)

Formats == {"gltf", "glb", "obj"}

\* what a call of exportModel did: the alert, the files handed to
\* saveDataToFile, the console errors
Effects(alerts, saved, errors) == [alerts |-> alerts, saved |-> saved, errors |-> errors]

\* exportModel after the extraction; parsed tells whether GLTFExporter.parse
\* called its onDone or its onError callback
exportModel(mesh, format, parsed) ==
    IF ~IsDefined(mesh) THEN Effects(1, << >>, 0)
    ELSE IF format \in {"gltf", "glb"}
    THEN IF parsed THEN Effects(0, << "terrain." \o format >>, 0)
         ELSE Effects(0, << >>, 1)
    ELSE IF format = "obj" THEN Effects(0, << "terrain.obj" >>, 0)
    ELSE Effects(0, << >>, 1)

-----------------------------------------------------------------------------
(* services/proceduralGenerator.ts: SimplexNoise and                        *)
(* generateTerrainFromParams.  Noise coordinates and values are in          *)
(* 1/NoiseUnit, frequencies in 1/FrequencyUnit per world unit, persistence, *)
(* lacunarity and seeds in 1/FP; exponents are whole numbers.               *)

NoiseUnit == FP * FP
FrequencyUnit == 1000 * 1000

\* the values Math.random() returns for the default seed (0.25, 0.5, 0.75)
Seeds == {25, 50, 75}

\* this.p after the constructor's shuffle with createPrng(seed), tabulated for
\* the seeds: s = Math.sin(s) * 10000, n = floor((s - floor(s)) * (i + 1))
ShuffledP(seed) ==
    CASE seed = 25 ->
        << 113, 42, 190, 32, 56, 4, 189, 246, 213, 215, 105, 221, 19, 12, 53, 58,
           194, 22, 79, 131, 74, 146, 87, 177, 171, 202, 181, 59, 144, 245, 234, 199,
           162, 39, 172, 188, 180, 222, 69, 161, 183, 1, 51, 52, 67, 46, 229, 76,
           3, 167, 230, 175, 196, 219, 15, 8, 120, 91, 157, 195, 35, 218, 223, 61,
           200, 68, 62, 108, 110, 220, 89, 169, 140, 30, 9, 226, 198, 104, 24, 40,
           57, 90, 31, 48, 210, 16, 156, 34, 227, 208, 184, 151, 97, 122, 83, 55,
           25, 150, 204, 149, 137, 233, 243, 111, 240, 116, 252, 248, 143, 71, 147, 206,
           124, 205, 18, 182, 166, 237, 98, 186, 37, 78, 247, 84, 100, 107, 164, 63,
           160, 216, 81, 70, 123, 228, 178, 141, 201, 96, 60, 20, 92, 236, 88, 209,
           155, 254, 54, 207, 154, 174, 2, 23, 255, 29, 13, 21, 239, 101, 152, 125,
           47, 41, 138, 119, 75, 102, 99, 118, 117, 7, 176, 133, 251, 185, 132, 214,
           217, 95, 224, 128, 45, 66, 27, 85, 28, 192, 43, 159, 158, 179, 173, 64,
           232, 153, 135, 114, 139, 129, 231, 77, 80, 250, 145, 17, 163, 136, 168, 14,
           170, 112, 238, 212, 72, 109, 191, 235, 242, 50, 33, 148, 73, 121, 49, 253,
           130, 134, 0, 94, 6, 241, 106, 82, 93, 44, 5, 203, 38, 26, 11, 249,
           86, 187, 36, 244, 225, 197, 165, 142, 193, 126, 115, 103, 211, 127, 65, 10 >>
      [] seed = 50 ->
        << 9, 248, 119, 148, 175, 195, 96, 214, 166, 8, 192, 211, 251, 105, 98, 161,
           174, 194, 80, 241, 16, 244, 221, 74, 250, 89, 170, 115, 58, 38, 59, 26,
           236, 158, 33, 255, 5, 191, 217, 92, 7, 86, 245, 112, 91, 47, 150, 54,
           78, 120, 160, 15, 213, 45, 226, 4, 238, 71, 188, 24, 49, 6, 76, 199,
           146, 121, 223, 222, 72, 10, 48, 60, 69, 178, 149, 177, 113, 167, 55, 189,
           137, 164, 93, 240, 162, 28, 106, 107, 1, 143, 184, 239, 176, 44, 253, 163,
           230, 84, 165, 254, 132, 169, 63, 42, 242, 40, 157, 94, 206, 205, 81, 172,
           232, 198, 190, 29, 57, 135, 209, 11, 124, 61, 185, 247, 34, 99, 114, 186,
           144, 27, 18, 51, 75, 171, 52, 134, 111, 104, 67, 41, 229, 181, 224, 37,
           133, 227, 127, 66, 122, 85, 2, 101, 97, 20, 25, 14, 79, 151, 159, 235,
           90, 208, 125, 100, 216, 234, 140, 131, 82, 215, 87, 173, 102, 203, 109, 77,
           196, 22, 32, 153, 19, 138, 21, 13, 128, 17, 243, 123, 116, 200, 182, 155,
           218, 201, 50, 179, 145, 220, 156, 118, 154, 39, 197, 136, 43, 233, 46, 95,
           56, 35, 168, 142, 68, 147, 152, 64, 212, 246, 70, 108, 249, 252, 237, 30,
           23, 83, 207, 141, 187, 62, 103, 53, 219, 3, 0, 12, 73, 126, 139, 193,
           88, 202, 36, 231, 180, 228, 129, 225, 210, 31, 117, 204, 183, 130, 110, 65 >>
      [] seed = 75 ->
        << 96, 40, 222, 72, 127, 114, 249, 201, 214, 12, 49, 152, 51, 176, 75, 126,
           210, 159, 237, 139, 142, 71, 116, 162, 50, 206, 149, 6, 166, 175, 81, 179,
           190, 196, 87, 147, 170, 61, 135, 148, 167, 235, 189, 110, 157, 248, 100, 104,
           13, 39, 120, 85, 204, 42, 230, 202, 44, 82, 46, 146, 153, 219, 15, 0,
           55, 240, 208, 88, 133, 69, 225, 14, 45, 251, 122, 58, 26, 137, 242, 18,
           180, 89, 227, 187, 23, 57, 27, 203, 200, 5, 255, 165, 35, 92, 70, 29,
           198, 130, 140, 109, 56, 136, 34, 97, 95, 193, 113, 182, 141, 173, 160, 213,
           37, 188, 118, 253, 106, 220, 209, 9, 212, 138, 215, 108, 164, 103, 174, 74,
           54, 21, 83, 111, 47, 22, 30, 229, 4, 221, 234, 192, 73, 211, 154, 132,
           20, 11, 65, 52, 48, 145, 25, 143, 224, 16, 169, 244, 64, 84, 246, 228,
           181, 207, 131, 124, 7, 125, 250, 218, 41, 150, 177, 239, 155, 134, 24, 197,
           94, 79, 91, 31, 33, 3, 28, 19, 77, 8, 238, 86, 156, 243, 199, 121,
           32, 76, 194, 2, 233, 36, 66, 80, 107, 163, 119, 185, 178, 151, 232, 128,
           105, 183, 123, 216, 53, 236, 10, 67, 254, 63, 1, 158, 59, 226, 161, 171,
           93, 43, 144, 172, 101, 191, 186, 217, 129, 38, 90, 115, 205, 60, 117, 102,
           98, 62, 78, 231, 195, 252, 184, 245, 223, 112, 247, 17, 68, 241, 168, 99 >>

\* this.perm = this.p.concat(this.p), this.permMod12 = perm % 12
perm(seed, k) == ShuffledP(seed)[(k % 256) + 1]
permMod12(seed, k) == perm(seed, k) % 12

grad3 ==
    << <<1, 1, 0>>, <<-1, 1, 0>>, <<1, -1, 0>>, <<-1, -1, 0>>,
       <<1, 0, 1>>, <<-1, 0, 1>>, <<1, 0, -1>>, <<-1, 0, -1>>,
       <<0, 1, 1>>, <<0, -1, 1>>, <<0, 1, -1>>, <<0, -1, -1>> >>

dot(g, x, y) == g[1] * x + g[2] * y

\* F2 = 0.5 * (sqrt(3) - 1), G2 = (3 - sqrt(3)) / 6
F2 == (3660 * NoiseUnit) \div 10000
G2 == (2113 * NoiseUnit) \div 10000

\* one corner's contribution: t = 0.5 - x*x - y*y, then t^4 * dot(grad, x, y)
Contribution(gi, x, y) ==
    LET t == NoiseUnit \div 2 - (x * x) \div NoiseUnit - (y * y) \div NoiseUnit
    IN  IF t < 0 THEN 0
        ELSE LET tSquared == (t * t) \div NoiseUnit
             IN  (((tSquared * tSquared) \div NoiseUnit) * dot(grad3[gi + 1], x, y))
                     \div NoiseUnit

\* SimplexNoise.noise(xin, yin) of the instance constructed with seed
noise(seed, xin, yin) ==
    LET s == ((xin + yin) * F2) \div NoiseUnit
        i == (xin + s) \div NoiseUnit
        j == (yin + s) \div NoiseUnit
        t == (i + j) * G2
        x0 == xin - (i * NoiseUnit - t)
        y0 == yin - (j * NoiseUnit - t)
        i1 == IF x0 > y0 THEN 1 ELSE 0
        j1 == IF x0 > y0 THEN 0 ELSE 1
        x1 == x0 - i1 * NoiseUnit + G2
        y1 == y0 - j1 * NoiseUnit + G2
        x2 == x0 - NoiseUnit + 2 * G2
        y2 == y0 - NoiseUnit + 2 * G2
        ii == i % 256
        jj == j % 256
        gi0 == permMod12(seed, ii + perm(seed, jj))
        gi1 == permMod12(seed, ii + i1 + perm(seed, jj + j1))
        gi2 == permMod12(seed, ii + 1 + perm(seed, jj + 1))
    IN  70 * (Contribution(gi0, x0, y0) + Contribution(gi1, x1, y1)
                + Contribution(gi2, x2, y2))

\* maxPossibleAmplitude: 1 + persistence + ... over the octaves
RECURSIVE MaxPossibleAmplitude(_, _, _)
MaxPossibleAmplitude(octaves, amp, persistence) ==
    IF octaves = 0 THEN 0
    ELSE amp + MaxPossibleAmplitude(octaves - 1, (amp * persistence) \div FP, persistence)

\* sampleX = vertexX * frequency (vertexX is VertexXScaled / PlaneScale planar units)
Sample(vertexScaled, frequency) ==
    (vertexScaled * frequency * ((PlanarUnit * NoiseUnit) \div FrequencyUnit)) \div PlaneScale

\* the loop over the octaves: noiseHeight
RECURSIVE NoiseHeight(_, _, _, _, _, _, _)
NoiseHeight(seed, x, y, octaves, amplitude, frequency, base) ==
    IF octaves = 0 THEN 0
    ELSE LET perlinValue == noise(seed, Sample(VertexXScaled(x), frequency),
                                  Sample(VertexZScaled(y), frequency))
         IN  (perlinValue * amplitude) \div NoiseUnit
               + NoiseHeight(seed, x, y, octaves - 1,
                             (amplitude * base.persistence) \div FP,
                             (frequency * base.lacunarity) \div FP, base)

\* Math.pow(base, exponent) in 1/NoiseUnit
RECURSIVE Pow(_, _)
Pow(b, exponent) ==
    IF exponent = 0 THEN NoiseUnit ELSE (Pow(b, exponent - 1) * b) \div NoiseUnit

\* finalHeight of the vertex (x, y)
FinalHeight(seed, x, y, base) ==
    LET noiseHeight == NoiseHeight(seed, x, y, base.octaves, NoiseUnit,
                                   base.baseFrequency, base)
        maxPossibleAmplitude == MaxPossibleAmplitude(base.octaves, NoiseUnit, base.persistence)
        normalizedHeight == ((noiseHeight * NoiseUnit) \div maxPossibleAmplitude + NoiseUnit) \div 2
    IN  (Pow(normalizedHeight, base.exponent) * base.heightScale) \div NoiseUnit

\* applyFeature at one vertex
FeatureVertex(acc, x, y, feature) ==
    LET centre == [x |-> feature.x, z |-> feature.z]
        radius == feature.radius * PlaneScale
        distSq == DistSqScaled(x, y, centre)
    IN  IF distSq < radius * radius
        THEN LET dist == Isqrt(distSq)
                 t == FP - (dist * FP) \div radius
                 strength == (t * t * (3 * FP - 2 * t)) \div (FP * FP)
                 index == y * VERTICES_X + x
                 currentHeight == ReadAt(acc.heightData, index)
                 moved == currentHeight + ((feature.height - currentHeight) * strength) \div FP
             IN  IF feature.type \in {"mountain", "ridge"}
                 THEN IF currentHeight < feature.height
                      THEN [acc EXCEPT !.heightData = WriteAt(@, index, moved)]
                      ELSE acc
                 ELSE IF feature.type \in {"lake", "valley"}
                 THEN IF currentHeight > feature.height
                      THEN [acc EXCEPT !.heightData = WriteAt(@, index, moved)]
                      ELSE acc
                 ELSE acc
        ELSE acc

\* applyFeature writes into the heightData it is given
applyFeature(heightData, feature) ==
    ForEachVertex(LAMBDA acc, x, y : FeatureVertex(acc, x, y, feature),
                  [heightData |-> heightData], 0).heightData

\* mutant: the features are applied last to first
RECURSIVE ApplyFeatures_reversed(_, _)
ApplyFeatures_reversed(heightData, features) ==
    IF features = << >> THEN heightData
    ELSE applyFeature(ApplyFeatures_reversed(heightData, Tail(features)), Head(features))

\* params.features.forEach(feature => applyFeature(heightData, feature))
RECURSIVE ApplyFeatures(_, _)
ApplyFeatures(heightData, features) ==
    IF features = << >> THEN heightData
    ELSE ApplyFeatures(applyFeature(heightData, Head(features)), Tail(features))

\* generateTerrainFromParams(params), where new SimplexNoise() drew seed
generateTerrainFromParams(params, seed) ==
    LET noised == [k \in 1..(VERTICES_X * VERTICES_Y) |->
                      FinalHeight(seed, (k - 1) % VERTICES_X, (k - 1) \div VERTICES_X,
                                  params.baseParams)]
        featured == ApplyFeatures(noised, params.features)
        heightData == [k \in DOMAIN featured |-> Max(SEA_FLOOR_LEVEL, featured[k])]
    IN  [heightData |-> heightData, colorData |-> generateInitialColorData(heightData)]

-----------------------------------------------------------------------------
(* The chunked LOD meshes of TerrainEditor and updateTerrainGeometry's      *)
(* reads, at the source's grid size.  Plane positions are in 1/LodScale     *)
(* world units, a grid index is a fraction num / den.                       *)

\* TERRAIN_SEGMENTS_X and TERRAIN_SEGMENTS_Y as constants.ts has them
FULL_SEGMENTS_X == 128
FULL_SEGMENTS_Y == 128
NUM_CHUNKS_X == 8
NUM_CHUNKS_Y == 8
CHUNK_SEGMENTS_X == FULL_SEGMENTS_X \div NUM_CHUNKS_X
CHUNK_SEGMENTS_Y == FULL_SEGMENTS_Y \div NUM_CHUNKS_Y
CHUNK_WIDTH == TERRAIN_WIDTH \div NUM_CHUNKS_X
CHUNK_HEIGHT == TERRAIN_HEIGHT \div NUM_CHUNKS_Y

LOD_LEVELS ==
    << [distance |-> 40000, segments |-> CHUNK_SEGMENTS_X],
       [distance |-> 90000, segments |-> CHUNK_SEGMENTS_X \div 2],
       [distance |-> 160000, segments |-> CHUNK_SEGMENTS_X \div 4] >>

LodScale == 2 * 2

\* lod.position.x = (x - NUM_CHUNKS_X / 2 + 0.5) * CHUNK_WIDTH, and the same in z
LodPositionX(chunkX) == ((2 * chunkX - NUM_CHUNKS_X + 1) * CHUNK_WIDTH * LodScale) \div 2
LodPositionZ(chunkY) == ((2 * chunkY - NUM_CHUNKS_Y + 1) * CHUNK_HEIGHT * LodScale) \div 2

\* new THREE.PlaneGeometry(size, size, segments, segments).rotateX(-PI / 2):
\* the local x (or z) of the vertex column (or row) i
LodPlane(size, segments, i) == (i * size * LodScale) \div segments - (size * LodScale) \div 2

\* the world (X, Z) of vertex (x, y) of the chunk's mesh of the given level
LodWorld(chunkIndex, level, x, y) ==
    LET segments == LOD_LEVELS[level + 1].segments
    IN  << LodPositionX(chunkIndex % NUM_CHUNKS_X) + LodPlane(CHUNK_WIDTH, segments, x),
           LodPositionZ(chunkIndex \div NUM_CHUNKS_X) + LodPlane(CHUNK_HEIGHT, segments, y) >>

\* mutant: every level is read with the stride of the full-detail level
segmentRatio_one(chunkSegmentsX) == [num |-> 1, den |-> 1]

\* segmentRatio = CHUNK_SEGMENTS_X / chunkSegmentsX
segmentRatio(chunkSegmentsX) == [num |-> CHUNK_SEGMENTS_X, den |-> chunkSegmentsX]

\* updateTerrainGeometry's globalIndex for vertex (x, y) of the chunk's mesh
\* of the given level
GlobalIndex(chunkIndex, level, x, y) ==
    LET totalVerticesX == FULL_SEGMENTS_X + 1
        chunkX == chunkIndex % NUM_CHUNKS_X
        chunkY == chunkIndex \div NUM_CHUNKS_X
        ratio == segmentRatio(LOD_LEVELS[level + 1].segments)
        globalX == chunkX * CHUNK_SEGMENTS_X * ratio.den + x * ratio.num
        globalY == chunkY * CHUNK_SEGMENTS_Y * ratio.den + y * ratio.num
    IN  [num |-> globalY * totalVerticesX + globalX, den |-> ratio.den]

-----------------------------------------------------------------------------
(* SpecCalls: the pure functions outside the brush engine, each called     *)
(* once on enumerated arguments.                                           *)

\* brush radii the smoothStep calls use
MaxRadius == 12

SmoothStepCalls ==
    { [fn |-> "smoothStep", min |-> 0, max |-> r, value |-> d] :
          r \in 1..MaxRadius, d \in 0..(2 * MaxRadius) }

\* a grid for the export: the vertices of the rectangle [x0, x1] x [y0, y1]
\* (all of them, or its two opposite corners only) are above water, each with
\* a height and a colour of its own (1e-7, 2e-7, ... above sea level); the
\* others are at the level lo
ExportGrid(x0, x1, y0, y1, shape, lo) ==
    LET above(x, y) ==
            /\ x0 <= x /\ x <= x1 /\ y0 <= y /\ y <= y1
            /\ shape = "corners" => (<<x, y>> \in { <<x0, y0>>, <<x1, y1>> })
    IN  [heightData |->
             [i \in 1..((ExportSegmentsX + 1) * (ExportSegmentsY + 1)) |->
                 IF above((i - 1) % (ExportSegmentsX + 1), (i - 1) \div (ExportSegmentsX + 1))
                 THEN i ELSE lo],
         colorData |->
             [i \in 1..(3 * (ExportSegmentsX + 1) * (ExportSegmentsY + 1)) |-> i]]

\* x0 > x1 is the grid with no vertex above water
ExportGrids ==
    { ExportGrid(x0, x1, y0, y1, shape, lo) :
          x0 \in 0..ExportSegmentsX, x1 \in 0..ExportSegmentsX,
          y0 \in 0..ExportSegmentsY, y1 \in 0..ExportSegmentsY,
          shape \in {"full", "corners"}, lo \in {-Epsilon, LAND_LEVEL} }

ExtractionCalls ==
    { [fn |-> fn, grid |-> grid] :
          fn \in {"createTrimmedTerrainMesh", "createTerrainMeshForExport"},
          grid \in ExportGrids }

ExportModelCalls ==
    { [fn |-> "exportModel", extraction |-> extraction, grid |-> grid, format |-> format] :
          extraction \in {"createTrimmedTerrainMesh", "createTerrainMeshForExport"},
          grid \in { ExportGrid(x0, x1, 0, ExportSegmentsY, "full", lo) :
                         x0 \in 0..ExportSegmentsX, x1 \in 0..ExportSegmentsX,
                         lo \in {-Epsilon, LAND_LEVEL} },
          format \in Formats }

Mountain == [type |-> "mountain", x |-> 0, z |-> 0, radius |-> 60, height |-> 50]
Lake == [type |-> "lake", x |-> 50, z |-> 50, radius |-> 40, height |-> -5]
Valley == [type |-> "valley", x |-> 0, z |-> 0, radius |-> 120, height |-> -30]

GenerateCalls ==
    { [fn |-> "generateTerrainFromParams",
       params |-> [baseParams |-> [octaves |-> octaves, persistence |-> FP \div 2,
                                   lacunarity |-> 2 * FP, baseFrequency |-> baseFrequency,
                                   exponent |-> exponent, heightScale |-> heightScale],
                   features |-> features]] :
          octaves \in {1, 2}, baseFrequency \in {7, 23}, exponent \in {1, 2},
          heightScale \in {30, 60},
          features \in { << >>, << Mountain >>, << Lake >>, << Mountain, Lake >>,
                          << Mountain, Valley >>, << Valley, Mountain >> } }

\* applyFeature on a flat or a sloping grid, with features whose rim passes
\* through vertices (radius 50 around the centre) or not
FeatureCalls ==
    { [fn |-> "applyFeature", heightData |-> heightData,
       feature |-> [type |-> type, x |-> c, z |-> c, radius |-> radius, height |-> height]] :
          heightData \in { [k \in 1..(VERTICES_X * VERTICES_Y) |-> level] :
                              level \in {SEA_FLOOR_LEVEL, LAND_LEVEL, ROCK_LEVEL, 2 * SNOW_LEVEL} }
                         \cup { [k \in 1..(VERTICES_X * VERTICES_Y) |-> 7 * k - 20] },
          type \in {"mountain", "ridge", "lake", "valley"},
          c \in {0, 50}, radius \in {50, 60, 120}, height \in {50, -5} }

\* one iteration of updateTerrainGeometry's loops: a chunk, one of its
\* levels, a vertex of that level's mesh
GeometryCalls ==
    UNION { { [fn |-> "updateTerrainGeometry", chunkIndex |-> chunkIndex, level |-> level,
               x |-> x, y |-> y] :
                  x \in 0..LOD_LEVELS[level + 1].segments,
                  y \in 0..LOD_LEVELS[level + 1].segments,
                  chunkIndex \in 0..(NUM_CHUNKS_X * NUM_CHUNKS_Y - 1) } :
            level \in 0..(Len(LOD_LEVELS) - 1) }

Calls == SmoothStepCalls \cup GenerateCalls \cup FeatureCalls

\* a function is about to be called on the arguments of one of the calls
Called(calls) ==
    /\ call \in calls
    /\ ret = Undefined
    /\ HistUnused
    /\ BrushUnused
    /\ EditorUnused
    /\ HeapUnused

InitCalls == Called(Calls)

Returns(value) ==
    /\ ret = Undefined
    /\ ret' = Some(value)
    /\ UNCHANGED call
    /\ UNCHANGED <<histVars, brushVars, editorVars, heapVars>>

CallSmoothStep ==
    /\ call.fn = "smoothStep"
    /\ Returns(smoothStep(call.min, call.max, call.value))

Extract(extraction, grid) ==
    IF extraction = "createTrimmedTerrainMesh"
    THEN createTrimmedTerrainMesh(grid.heightData, grid.colorData)
    ELSE createTerrainMeshForExport(grid.heightData, grid.colorData)

CallTrimmed ==
    /\ call.fn = "createTrimmedTerrainMesh"
    /\ Returns(Extract(call.fn, call.grid))

CallMarching ==
    /\ call.fn = "createTerrainMeshForExport"
    /\ Returns(Extract(call.fn, call.grid))

\* exportModel of part_006 (trimmed) and of part_005 (marching squares)
CallExportModel ==
    /\ call.fn = "exportModel"
    /\ \E parsed \in BOOLEAN :
          LET mesh == Extract(call.extraction, call.grid)
          IN  Returns([mesh |-> mesh, did |-> exportModel(mesh, call.format, parsed)])

\* two calls of generateTerrainFromParams with the same params: each
\* constructs new SimplexNoise() with its own Math.random() seed
CallGenerateTwice ==
    /\ call.fn = "generateTerrainFromParams"
    /\ \E seed1 \in Seeds, seed2 \in Seeds :
          Returns([first |-> generateTerrainFromParams(call.params, seed1),
                   second |-> generateTerrainFromParams(call.params, seed2),
                   seeds |-> << seed1, seed2 >>])

CallApplyFeature ==
    /\ call.fn = "applyFeature"
    /\ Returns(applyFeature(call.heightData, call.feature))

NextCalls ==
    \/ CallSmoothStep
    \/ CallGenerateTwice
    \/ CallApplyFeature

SpecCalls == InitCalls /\ [][NextCalls]_vars

(* SpecExport: the export service, called once on an enumerated grid *)

InitExport == Called(ExtractionCalls \cup ExportModelCalls)

NextExport ==
    \/ CallTrimmed
    \/ CallMarching
    \/ CallExportModel

SpecExport == InitExport /\ [][NextExport]_vars

(* SpecLod: one read of updateTerrainGeometry, for every chunk, level and   *)
(* vertex                                                                   *)

InitLod == Called(GeometryCalls)

CallUpdateTerrainGeometry ==
    /\ call.fn = "updateTerrainGeometry"
    /\ Returns(GlobalIndex(call.chunkIndex, call.level, call.x, call.y))

NextLod ==
    \/ CallUpdateTerrainGeometry

SpecLod == InitLod /\ [][NextLod]_vars

-----------------------------------------------------------------------------
(* Claims about the pure functions (checked under SpecCalls) *)

Returned(fn) == call.fn = fn /\ IsDefined(ret)

\* C14 as stated: smoothStep(0, r, 0) is 1, smoothStep(0, r, r) is 0, and
\* smoothStep(0, r, d) does not increase with d.
C14_SmoothStepFalls ==
    Returned("smoothStep") =>
        /\ call.value = 0 => Get(ret) = FP
        /\ call.value = call.max => Get(ret) = 0
        /\ \A d \in 0..call.value : smoothStep(call.min, call.max, d) >= Get(ret)

\* C14 amended: smoothStep(0, r, 0) is 0, smoothStep(0, r, d) is 1 for every
\* d >= r, and smoothStep(0, r, d) does not decrease with d; the falloff
\* 1 - smoothStep(0, r, d) is 1 at d = 0, 0 at d >= r, and does not increase.
C14_SmoothStepRises ==
    Returned("smoothStep") =>
        /\ Get(ret) \in 0..FP
        /\ call.value = 0 => Get(ret) = 0 /\ FP - Get(ret) = FP
        /\ call.value >= call.max => Get(ret) = FP /\ FP - Get(ret) = 0
        /\ \A d \in 0..call.value :
              /\ smoothStep(call.min, call.max, d) <= Get(ret)
              /\ FP - smoothStep(call.min, call.max, d) >= FP - Get(ret)

\* smoothStep returned 1 at the radius, after rising through a value strictly
\* between 0 and 1 inside it
C14_Witness ==
    /\ Returned("smoothStep")
    /\ call.value = call.max
    /\ Get(ret) = FP
    /\ \E d \in 1..(call.max - 1) :
          /\ smoothStep(call.min, call.max, d) > 0
          /\ smoothStep(call.min, call.max, d) < FP

\* no vertex of the grid is strictly above sea level
NoneAbove(grid) ==
    \A i \in DOMAIN grid.heightData : grid.heightData[i] <= LAND_LEVEL

\* C17: for a grid with no vertex strictly above LAND_LEVEL both extraction
\* functions return no mesh, and exportModel, in either variant and for
\* every format, alerts and hands no file to saveDataToFile.
C17_EmptyExportsNothing ==
    /\ (Returned("createTrimmedTerrainMesh") \/ Returned("createTerrainMeshForExport"))
            /\ NoneAbove(call.grid)
          => ~IsDefined(Get(ret))
    /\ Returned("exportModel") /\ NoneAbove(call.grid)
          => /\ ~IsDefined(Get(ret).mesh)
             /\ Get(ret).did = Effects(1, << >>, 0)

\* a grid lying exactly at sea level was exported as glb by the marching
\* squares variant: an alert and no file
C17_Witness ==
    /\ Returned("exportModel")
    /\ call.extraction = "createTerrainMeshForExport"
    /\ call.format = "glb"
    /\ \A i \in DOMAIN call.grid.heightData : call.grid.heightData[i] = LAND_LEVEL
    /\ Get(ret).did.alerts = 1
    /\ Get(ret).did.saved = << >>

\* the vertices strictly above sea level, and their bounding rectangle with
\* the padding of 2 cells, clipped to the grid
VerticesAbove(grid) ==
    { v \in ExportVertices : grid.heightData[ExportIndex(v[1], v[2]) + 1] > LAND_LEVEL }

PaddedBox(grid) ==
    LET xs == { v[1] : v \in VerticesAbove(grid) }
        ys == { v[2] : v \in VerticesAbove(grid) }
    IN  { v \in ExportVertices :
              /\ \E x \in xs : v[1] >= x - 2
              /\ \E x \in xs : v[1] <= x + 2
              /\ \E y \in ys : v[2] >= y - 2
              /\ \E y \in ys : v[2] <= y + 2 }

\* the world (X, Z) of a vertex of the full grid's plane, and of vertex i of
\* an exported mesh
GridWorld(v) ==
    << PlaneGeometryX(ExportSegmentsX, v[1]), PlaneGeometryX(ExportSegmentsY, v[2]) >>

MeshWorld(mesh, i) ==
    << mesh.position.x + mesh.vertices[i].x, mesh.position.z + mesh.vertices[i].z >>

\* C18: the trimmed export of a grid with a vertex above sea level is a mesh
\* whose vertices lie, one each, at the world positions of the grid vertices
\* of the padded (2 cells, clipped) bounding rectangle of the vertices above
\* sea level; each has the height max(grid height, LAND_LEVEL) and the colour
\* of the grid vertex at its world position; for a grid entirely above sea
\* level the mesh has (W+1)*(H+1) vertices.
C18_TrimmedCoversPaddedBox ==
    Returned("createTrimmedTerrainMesh") /\ ~NoneAbove(call.grid) =>
        /\ IsDefined(Get(ret))
        /\ LET mesh == Get(Get(ret))
               grid == call.grid
               box == PaddedBox(grid)
           IN  /\ { MeshWorld(mesh, i) : i \in DOMAIN mesh.vertices }
                     = { GridWorld(v) : v \in box }
               /\ Cardinality(DOMAIN mesh.vertices) = Cardinality(box)
               /\ \A i \in DOMAIN mesh.vertices : \A v \in ExportVertices :
                     GridWorld(v) = MeshWorld(mesh, i) =>
                        LET index == ExportIndex(v[1], v[2])
                        IN  /\ mesh.vertices[i].y = Max(grid.heightData[index + 1], LAND_LEVEL)
                            /\ mesh.vertices[i].color
                                  = << grid.colorData[3 * index + 1],
                                       grid.colorData[3 * index + 2],
                                       grid.colorData[3 * index + 3] >>
               /\ VerticesAbove(grid) = ExportVertices =>
                     Cardinality(DOMAIN mesh.vertices)
                        = (ExportSegmentsX + 1) * (ExportSegmentsY + 1)

\* a trimmed mesh narrower than the grid, its padding clipped at the low edge
\* only, with a vertex from below the sea raised to sea level
C18_Witness ==
    /\ Returned("createTrimmedTerrainMesh")
    /\ IsDefined(Get(ret))
    /\ LET mesh == Get(Get(ret))
       IN  /\ mesh.segmentsX < ExportSegmentsX
           /\ mesh.segmentsX = 3
           /\ MeshWorld(mesh, 0) = GridWorld(<<0, 0>>)
           /\ \E i \in DOMAIN mesh.vertices : \E v \in ExportVertices :
                 /\ GridWorld(v) = MeshWorld(mesh, i)
                 /\ call.grid.heightData[ExportIndex(v[1], v[2]) + 1] < LAND_LEVEL
                 /\ mesh.vertices[i].y = LAND_LEVEL

\* the edges of the grid that cross sea level: two neighbouring vertices, one
\* above LAND_LEVEL and the other not, the lower-left one first
CrossingEdges(grid) ==
    { edge \in ExportVertices \X ExportVertices :
          /\ \/ edge[2] = << edge[1][1] + 1, edge[1][2] >>
             \/ edge[2] = << edge[1][1], edge[1][2] + 1 >>
          /\ LET h1 == grid.heightData[ExportIndex(edge[1][1], edge[1][2]) + 1]
                 h2 == grid.heightData[ExportIndex(edge[2][1], edge[2][2]) + 1]
             IN  (h1 > LAND_LEVEL) # (h2 > LAND_LEVEL) }

\* the vertexMap key of an edge of the grid
KeyOfEdge(edge) ==
    "e_" \o ToString(edge[1][1]) \o "_" \o ToString(edge[1][2]) \o "_"
         \o ToString(edge[2][1]) \o "_" \o ToString(edge[2][2]) \o "_"
         \o (IF edge[1][2] = edge[2][2] THEN "0" ELSE "1")

SameVector(a, b) ==
    /\ a.x * b.den = b.x * a.den
    /\ a.y * b.den = b.y * a.den
    /\ a.z * b.den = b.z * a.den

SameColor(a, b) ==
    /\ a.r * b.den = b.r * a.den
    /\ a.g * b.den = b.g * a.den
    /\ a.b * b.den = b.b * a.den

\* the vertex emitted for a crossing edge is the interpolation of the edge's
\* two corners, position and colour, at t = (LAND_LEVEL - h1) / (h2 - h1),
\* 0 <= t <= 1, and lies at sea level
CrossingInterpolated(grid, mesh, edge) ==
    LET p1 == getVertexPosition(grid.heightData, edge[1][1], edge[1][2])
        p2 == getVertexPosition(grid.heightData, edge[2][1], edge[2][2])
        c1 == getVertexColor(grid.colorData, edge[1][1], edge[1][2])
        c2 == getVertexColor(grid.colorData, edge[2][1], edge[2][2])
        t == Parameter(p1.y, p2.y)
    IN  /\ 0 <= t.num /\ t.num <= t.den /\ t.den > 0
        /\ \E i \in DOMAIN mesh.keys :
              /\ mesh.keys[i] = KeyOfEdge(edge)
              /\ SameVector(mesh.vertices[i], lerpVectors(p1, p2, t))
              /\ SameColor(mesh.colors[i], lerpColors(c1, c2, t))
              /\ mesh.vertices[i].y = LAND_LEVEL * mesh.vertices[i].den

\* C24: for every cell edge that crosses sea level the emitted vertex's
\* position and colour are the interpolations of the two corners with the
\* same t = (LAND_LEVEL - h1) / (h2 - h1), 0 <= t <= 1, and its height is
\* sea level.
C24_CrossingVertexInterpolated ==
    Returned("createTerrainMeshForExport") /\ IsDefined(Get(ret)) =>
        \A edge \in CrossingEdges(call.grid) :
            CrossingInterpolated(call.grid, Get(Get(ret)), edge)

\* (auxiliary) the same for the crossing edges whose corner heights differ by
\* 1e-6 or more
C24_InterpolatedWhenApart ==
    Returned("createTerrainMeshForExport") /\ IsDefined(Get(ret)) =>
        \A edge \in CrossingEdges(call.grid) :
            LET h1 == call.grid.heightData[ExportIndex(edge[1][1], edge[1][2]) + 1]
                h2 == call.grid.heightData[ExportIndex(edge[2][1], edge[2][2]) + 1]
            IN  Abs(h1 - h2) >= Epsilon =>
                    CrossingInterpolated(call.grid, Get(Get(ret)), edge)

\* the grid edge k (1-based) of a cell, as the set of its two end points
EdgeOf(cell, k) ==
    { CellCorners(cell.x, cell.y)[k], CellCorners(cell.x, cell.y)[(k % 4) + 1] }

\* C25: the indices the cells obtained from addVertex identify the grid's
\* corners and edges: two cells get the same index for a corner or an edge
\* exactly when it is the same corner or the same edge of the grid (so each
\* contributes one vertex at most and neighbours share it), and no corner
\* shares an index with an edge.
C25_VerticesDeduplicated ==
    Returned("createTerrainMeshForExport") /\ IsDefined(Get(ret)) =>
        LET cells == Get(Get(ret)).cells
        IN  \A a \in DOMAIN cells, b \in DOMAIN cells : \A k \in 1..4, l \in 1..4 :
               /\ (cells[a].v[k] = cells[b].v[l])
                     <=> (CellCorners(cells[a].x, cells[a].y)[k]
                            = CellCorners(cells[b].x, cells[b].y)[l])
               /\ (cells[a].e[k] = cells[b].e[l]) <=> (EdgeOf(cells[a], k) = EdgeOf(cells[b], l))
               /\ cells[a].v[k] # cells[b].e[l]

\* two cells side by side and two cells one above the other were both
\* emitted and share the vertex of their common edge
C25_Witness ==
    /\ Returned("createTerrainMeshForExport")
    /\ IsDefined(Get(ret))
    /\ LET cells == Get(Get(ret)).cells
       IN  /\ \E a \in DOMAIN cells, b \in DOMAIN cells :
                 /\ cells[b].x = cells[a].x + 1 /\ cells[b].y = cells[a].y
                 /\ cells[a].e[2] = cells[b].e[4]
                 /\ cells[a].v[2] = cells[b].v[1]
           /\ \E a \in DOMAIN cells, b \in DOMAIN cells :
                 /\ cells[b].x = cells[a].x /\ cells[b].y = cells[a].y + 1
                 /\ cells[a].e[3] = cells[b].e[1]
                 /\ cells[a].v[3] = cells[b].v[2]

\* the sign-carrying double area of the triangle (p1, p2, p3) seen from above
\* (in the x-z plane of the grid), times the positive den1^2 * den2 * den3
Winding(p1, p2, p3) ==
    (p2.x * p1.den - p1.x * p2.den) * (p3.z * p1.den - p1.z * p3.den)
        - (p3.x * p1.den - p1.x * p3.den) * (p2.z * p1.den - p1.z * p2.den)

\* C26: no emitted triangle is wound against the triangles (v0, v1, v2) and
\* (v0, v2, v3) of the fully-above case, whose winding is positive.
C26_SameWinding ==
    Returned("createTerrainMeshForExport") /\ IsDefined(Get(ret)) =>
        LET mesh == Get(Get(ret))
        IN  \A i \in DOMAIN mesh.indices :
               Winding(mesh.vertices[mesh.indices[i][1] + 1],
                       mesh.vertices[mesh.indices[i][2] + 1],
                       mesh.vertices[mesh.indices[i][3] + 1]) >= 0

\* (auxiliary) the same for the triangles of the cells whose case is neither
\* 9 nor 12, and the triangles of those two cases are wound the other way
C26_WindingByCase ==
    Returned("createTerrainMeshForExport") /\ IsDefined(Get(ret)) =>
        LET mesh == Get(Get(ret))
        IN  \A c \in DOMAIN mesh.cells :
               LET triangles == CellTriangles(mesh.cells[c].caseIndex,
                                              mesh.cells[c].v, mesh.cells[c].e)
               IN  \A i \in DOMAIN triangles :
                      LET w == Winding(mesh.vertices[triangles[i][1] + 1],
                                       mesh.vertices[triangles[i][2] + 1],
                                       mesh.vertices[triangles[i][3] + 1])
                      IN  IF mesh.cells[c].caseIndex \in {9, 12} THEN w <= 0 ELSE w >= 0

\* the heights of the noise, before the features and the clamp
Noised(params, seed) ==
    [k \in 1..(VERTICES_X * VERTICES_Y) |->
        FinalHeight(seed, (k - 1) % VERTICES_X, (k - 1) \div VERTICES_X, params.baseParams)]

\* the vertex k (1-based) is at the feature's radius or farther from its centre
OutsideFeature(k, feature) ==
    DistSqScaled((k - 1) % VERTICES_X, (k - 1) \div VERTICES_X,
                 [x |-> feature.x, z |-> feature.z])
        >= (feature.radius * PlaneScale) * (feature.radius * PlaneScale)

\* C27: a mountain or a ridge lowers no vertex and raises none above the
\* feature's height, a lake or a valley raises no vertex and lowers none
\* below the feature's height, and the vertices at the radius or beyond are
\* unchanged; generateTerrainFromParams applies the features in the order of
\* the list and returns no height below SEA_FLOOR_LEVEL.
C27_FeaturesBounded ==
    /\ Returned("applyFeature") =>
          \A k \in DOMAIN call.heightData :
             LET old == call.heightData[k]
                 new == Get(ret)[k]
             IN  /\ OutsideFeature(k, call.feature) => new = old
                 /\ call.feature.type \in {"mountain", "ridge"} =>
                       /\ new >= old
                       /\ new > old => new <= call.feature.height
                 /\ call.feature.type \in {"lake", "valley"} =>
                       /\ new <= old
                       /\ new < old => new >= call.feature.height
    /\ Returned("generateTerrainFromParams") =>
          LET features == call.params.features
              noised == Noised(call.params, Get(ret).seeds[1])
              inOrder == IF Len(features) = 0 THEN noised
                         ELSE IF Len(features) = 1 THEN applyFeature(noised, features[1])
                         ELSE applyFeature(applyFeature(noised, features[1]), features[2])
          IN  \A k \in DOMAIN noised :
                 /\ Get(ret).first.heightData[k] >= SEA_FLOOR_LEVEL
                 /\ Get(ret).first.heightData[k] = Max(SEA_FLOOR_LEVEL, inOrder[k])

\* a mountain raised a vertex and left one at its rim alone
C27_Witness ==
    /\ Returned("applyFeature")
    /\ call.feature.type = "mountain"
    /\ \E k \in DOMAIN call.heightData :
          call.heightData[k] < Get(ret)[k] /\ Get(ret)[k] <= call.feature.height
    /\ \E k \in DOMAIN call.heightData :
          /\ DistSqScaled((k - 1) % VERTICES_X, (k - 1) \div VERTICES_X,
                          [x |-> call.feature.x, z |-> call.feature.z])
                = (call.feature.radius * PlaneScale) * (call.feature.radius * PlaneScale)
          /\ call.heightData[k] < call.feature.height
          /\ Get(ret)[k] = call.heightData[k]

\* (auxiliary) a mountain followed by a valley gave another terrain than the
\* valley followed by the mountain would have, with a vertex clamped to the
\* sea floor
C27_OrderWitness ==
    /\ Returned("generateTerrainFromParams")
    /\ Len(call.params.features) = 2
    /\ LET noised == Noised(call.params, Get(ret).seeds[1])
           swapped == applyFeature(applyFeature(noised, call.params.features[2]),
                                   call.params.features[1])
       IN  /\ \E k \in DOMAIN noised :
                 Get(ret).first.heightData[k] # Max(SEA_FLOOR_LEVEL, swapped[k])
           /\ \E k \in DOMAIN noised :
                 /\ ApplyFeatures(noised, call.params.features)[k] < SEA_FLOOR_LEVEL
                 /\ Get(ret).first.heightData[k] = SEA_FLOOR_LEVEL

\* C30: every vertex of the marching-squares buffers is referenced by a
\* triangle, and a grid entirely above sea level gives exactly the grid's
\* (W+1) * (H+1) corners as vertices and 2 * W * H triangles.
C30_EveryVertexReferenced ==
    Returned("createTerrainMeshForExport") /\ IsDefined(Get(ret)) =>
        LET mesh == Get(Get(ret))
        IN  /\ \A i \in DOMAIN mesh.vertices :
                  \E t \in DOMAIN mesh.indices : \E k \in 1..3 : mesh.indices[t][k] = i - 1
            /\ (\A i \in DOMAIN call.grid.heightData : call.grid.heightData[i] > LAND_LEVEL) =>
                  /\ Len(mesh.vertices) = (ExportSegmentsX + 1) * (ExportSegmentsY + 1)
                  /\ Len(mesh.indices) = 2 * ExportSegmentsX * ExportSegmentsY

\* (auxiliary) what is exported for a grid entirely above sea level: the
\* corners, then one vertex per grid edge that no triangle references
C30_FullGridExport ==
    ( /\ Returned("createTerrainMeshForExport")
      /\ \A i \in DOMAIN call.grid.heightData : call.grid.heightData[i] > LAND_LEVEL )
    => /\ IsDefined(Get(ret))
       /\ LET mesh == Get(Get(ret))
          IN  /\ Len(mesh.indices) = 2 * ExportSegmentsX * ExportSegmentsY
              /\ Len(mesh.vertices) = (ExportSegmentsX + 1) * (ExportSegmentsY + 1)
                    + ExportSegmentsX * (ExportSegmentsY + 1)
                    + ExportSegmentsY * (ExportSegmentsX + 1)
              /\ \A c \in DOMAIN mesh.cells : \A k \in 1..4 :
                    /\ \E t \in DOMAIN mesh.indices : \E j \in 1..3 :
                          mesh.indices[t][j] = mesh.cells[c].v[k]
                    /\ \A t \in DOMAIN mesh.indices : \A j \in 1..3 :
                          mesh.indices[t][j] # mesh.cells[c].e[k]

C19_SameSeedSameOutput ==
    Returned("generateTerrainFromParams") /\ Get(ret).seeds[1] = Get(ret).seeds[2]
        => Get(ret).first = Get(ret).second

\* two grid indices, as fractions, are the same number
SameIndex(a, b) == a.num * b.den = b.num * a.den

\* the vertices of any chunk and level at the world position of the vertex
\* (x, y) of the given chunk and level read the grid index that vertex reads
SeamlessAt(chunkIndex, level, x, y) ==
    LET w == LodWorld(chunkIndex, level, x, y)
        index == GlobalIndex(chunkIndex, level, x, y)
    IN  \A level2 \in 0..(Len(LOD_LEVELS) - 1) :
        \A chunkX2 \in 0..(NUM_CHUNKS_X - 1) :
        \A x2 \in 0..LOD_LEVELS[level2 + 1].segments :
            LodWorld(chunkX2, level2, x2, 0)[1] = w[1] =>
                \A chunkY2 \in 0..(NUM_CHUNKS_Y - 1) :
                \A y2 \in 0..LOD_LEVELS[level2 + 1].segments :
                    LodWorld(chunkY2 * NUM_CHUNKS_X + chunkX2, level2, x2, y2) = w =>
                        SameIndex(GlobalIndex(chunkY2 * NUM_CHUNKS_X + chunkX2, level2, x2, y2),
                                  index)

\* C20: for every chunk, level and local vertex the grid index
\* updateTerrainGeometry reads is a whole number in [0, (W+1)*(H+1)), and
\* every vertex of any chunk and level at the same world (X, Z) reads the
\* same grid index.
C20_LodReadsSeamless ==
    Returned("updateTerrainGeometry") =>
        /\ Get(ret).num % Get(ret).den = 0
        /\ Get(ret).num \div Get(ret).den >= 0
        /\ Get(ret).num \div Get(ret).den < (FULL_SEGMENTS_X + 1) * (FULL_SEGMENTS_Y + 1)
        /\ SeamlessAt(call.chunkIndex, call.level, call.x, call.y)

\* a corner vertex of a coarsest-level mesh where four chunks meet: the
\* full-detail mesh of the chunk diagonally opposite has a vertex at the same
\* world position
C20_Witness ==
    /\ Returned("updateTerrainGeometry")
    /\ call.level = 2
    /\ call.x = LOD_LEVELS[3].segments
    /\ call.y = LOD_LEVELS[3].segments
    /\ call.chunkIndex = 0
    /\ LodWorld(NUM_CHUNKS_X + 1, 0, 0, 0) = LodWorld(call.chunkIndex, call.level, call.x, call.y)
    /\ Get(ret).num = (CHUNK_SEGMENTS_Y * (FULL_SEGMENTS_X + 1) + CHUNK_SEGMENTS_X) * Get(ret).den

-----------------------------------------------------------------------------
(* SpecHeap: the Float32Arrays as objects.  heap[a] is the content of the  *)
(* array at address a; a grid is a pair of addresses.  Each operation      *)
(* allocates and writes the arrays its source allocates and writes.        *)

\* operations in one run
MaxHeapOps == 3

\* mutant: new Float32Array(src) hands back src itself
CopyArray_alias(h, src) == [heap |-> h, at |-> src]

\* new Float32Array(src): a new array with the content of the one at src
CopyArray(h, src) == [heap |-> Append(h, h[src]), at |-> Len(h) + 1]

\* new Float32Array(n), filled by the caller's loop
NewArray(h, contents) == [heap |-> Append(h, contents), at |-> Len(h) + 1]

HeapGrid(h, heightAt, colorAt) == [heap |-> h, grid |-> [heightData |-> heightAt, colorData |-> colorAt]]

\* applyBrush: Paint returns the heightData it was given and a new colorData,
\* the other tools return newHeightData and newColorData
BrushOnHeap(h, grid, tool, point, options) ==
    LET datas == applyBrush(h[grid.heightData], h[grid.colorData], point, tool,
                            brushSettings, options)
    IN  IF ~IsDefined(datas) THEN Undefined
        ELSE IF tool = "Paint"
        THEN LET newColorData == CopyArray(h, grid.colorData)
             IN  Some(HeapGrid([newColorData.heap EXCEPT
                                   ![newColorData.at] = Get(datas).colorData],
                               grid.heightData, newColorData.at))
        ELSE LET newHeightData == CopyArray(h, grid.heightData)
                 newColorData == CopyArray(newHeightData.heap, grid.colorData)
             IN  Some(HeapGrid([newColorData.heap EXCEPT
                                   ![newHeightData.at] = Get(datas).heightData,
                                   ![newColorData.at] = Get(datas).colorData],
                               newHeightData.at, newColorData.at))

\* applyGlobalSmooth: readHeightData and newHeightData are copies, colorData
\* comes from generateInitialColorData
GlobalSmoothOnHeap(h, heightAt) ==
    LET datas == applyGlobalSmooth(h[heightAt], FP \div 10)
        readHeightData == CopyArray(h, heightAt)
        newHeightData == CopyArray(readHeightData.heap, heightAt)
        written == [newHeightData.heap EXCEPT ![newHeightData.at] = datas.heightData]
        newColorData == NewArray(written, datas.colorData)
    IN  HeapGrid(newColorData.heap, newHeightData.at, newColorData.at)

\* applyGlobalFlatten: without land it returns the heightData it was given
GlobalFlattenOnHeap(h, heightAt) ==
    LET datas == applyGlobalFlatten(h[heightAt], FP \div 10)
        newHeightData == CopyArray(h, heightAt)
    IN  IF LandIndices(h[heightAt]) = {}
        THEN LET newColorData == NewArray(newHeightData.heap, datas.colorData)
             IN  HeapGrid(newColorData.heap, heightAt, newColorData.at)
        ELSE LET written == [newHeightData.heap EXCEPT
                                ![newHeightData.at] = datas.heightData]
                 newColorData == NewArray(written, datas.colorData)
             IN  HeapGrid(newColorData.heap, newHeightData.at, newColorData.at)

\* a history entry: the grid, with (ghost) the contents its arrays had when
\* it was pushed
Entry(h, grid) ==
    [heightData |-> grid.heightData, colorData |-> grid.colorData,
     pushed |-> [heightData |-> h[grid.heightData], colorData |-> h[grid.colorData]]]

GridOfEntry(entry) == [heightData |-> entry.heightData, colorData |-> entry.colorData]

HeapOptions ==
    { [targetHeight |-> Some(20), paintColor |-> Some(initialPaintColor),
       paintMode |-> Some("color"), paintTexture |-> Undefined,
       textureSettings |-> Undefined],
      [targetHeight |-> Some(20), paintColor |-> Undefined,
       paintMode |-> Some("texture"), paintTexture |-> Some(SampleTexture),
       textureSettings |-> Some([scale |-> FP, rotation |-> 0, blendWeight |-> FP])] }

\* the committed grid at the start: the App's flat sea floor, or a slope
\* from below the sea to snow, as earlier strokes leave it
HeapGrids == { InitialGrid, GridOf(LAMBDA x, y : -5 + 20 * x + 7 * y) }

InitHeap ==
    /\ \E grid \in HeapGrids : heap = << grid.heightData, grid.colorData >>
    /\ refs = [history |-> << Entry(heap, [heightData |-> 1, colorData |-> 2]) >>,
               currentIndex |-> 0,
               liveState |-> [heightData |-> 1, colorData |-> 2],
               ops |-> 0]
    /\ HistUnused
    /\ BrushUnused
    /\ EditorUnused
    /\ CallsUnused

HeapStep(newHeap, newRefs) ==
    /\ refs.ops < MaxHeapOps
    /\ heap' = newHeap
    /\ refs' = [newRefs EXCEPT !.ops = refs.ops + 1]
    /\ UNCHANGED <<histVars, brushVars, editorVars, callVars>>

\* handleTerrainUpdate: setLiveState(newDatas) unless applyBrush returned null
HeapBrush(tool, point, options) ==
    LET newDatas == BrushOnHeap(heap, refs.liveState, tool, point, options)
    IN  /\ options.paintMode = Some("texture") => tool = "Paint"
        /\ IF IsDefined(newDatas)
           THEN HeapStep(Get(newDatas).heap, [refs EXCEPT !.liveState = Get(newDatas).grid])
           ELSE HeapStep(heap, refs)

\* handlePaintEnd: setCommittedState(liveState)
HeapCommit ==
    LET pushed == setState(refs.history, refs.currentIndex, Entry(heap, refs.liveState))
    IN  HeapStep(heap, [refs EXCEPT !.history = pushed.history,
                                    !.currentIndex = pushed.currentIndex])

\* undo or redo, and the effect that copies committedState into liveState
HeapMove(newIndex) ==
    /\ newIndex # refs.currentIndex
    /\ HeapStep(heap, [refs EXCEPT !.currentIndex = newIndex,
                                   !.liveState = GridOfEntry(state(refs.history, newIndex))])

HeapUndo == HeapMove(undo(refs.history, refs.currentIndex))

HeapRedo == HeapMove(redo(refs.history, refs.currentIndex))

\* a global operation on committedState, pushed by setCommittedState
HeapPushGlobal(result) ==
    LET pushed == setState(refs.history, refs.currentIndex, Entry(result.heap, result.grid))
    IN  HeapStep(result.heap, [refs EXCEPT !.history = pushed.history,
                                           !.currentIndex = pushed.currentIndex,
                                           !.liveState = result.grid])

\* handleErosion
HeapErosion ==
    HeapPushGlobal(GlobalSmoothOnHeap(heap, state(refs.history, refs.currentIndex).heightData))

\* handleGlobalFlatten
HeapGlobalFlatten ==
    HeapPushGlobal(GlobalFlattenOnHeap(heap, state(refs.history, refs.currentIndex).heightData))

NextHeap ==
    \/ \E tool \in Tool, point \in HitPoints, options \in HeapOptions :
          HeapBrush(tool, point, options)
    \/ HeapCommit
    \/ HeapUndo
    \/ HeapRedo
    \/ HeapErosion
    \/ HeapGlobalFlatten

SpecHeap == InitHeap /\ [][NextHeap]_vars

-----------------------------------------------------------------------------
(* Claims about the arrays (checked under SpecHeap) *)

\* C15: no operation writes into an array it was given: every array of every
\* history entry has, at every later point, the content it had when the entry
\* was pushed, and so has every array the live grid refers to that a history
\* entry shares.
C15_EntriesKeepContents ==
    \A i \in 1..Len(refs.history) :
        /\ heap[refs.history[i].heightData] = refs.history[i].pushed.heightData
        /\ heap[refs.history[i].colorData] = refs.history[i].pushed.colorData

\* an array allocated earlier has the same content after the step
C15_NoWriteToExisting == [][\A a \in 1..Len(heap) : heap'[a] = heap[a]]_vars

\* two history entries share one heightData array (a Paint stroke was
\* committed), and a later brush call made a live grid with other heights
C15_Witness ==
    /\ Len(refs.history) >= 2
    /\ \E i, j \in 1..Len(refs.history) :
          /\ i < j
          /\ refs.history[i].heightData = refs.history[j].heightData
          /\ refs.history[i].colorData # refs.history[j].colorData
          /\ heap[refs.history[i].colorData] # heap[refs.history[j].colorData]
    /\ heap[refs.liveState.heightData] # heap[refs.history[1].heightData]

-----------------------------------------------------------------------------
(* Claims about applyBrush (checked under SpecBrush) *)

\* the cases C8 lists as a missing auxiliary input
C8_ListedMissing ==
    \/ bIn.tool \in {"Flatten", "Plane"} /\ ~IsDefined(bIn.options.targetHeight)
    \/ bIn.tool = "Paint" /\ bIn.options.paintMode = Some("color")
                          /\ ~IsDefined(bIn.options.paintColor)
    \/ bIn.tool = "Paint" /\ bIn.options.paintMode = Some("texture")
                          /\ ~IsDefined(bIn.options.paintTexture)

\* C8 as stated: applyBrush returns none exactly when Flatten or Plane has no
\* targetHeight, Paint in colour mode has no paint colour, or Paint in texture
\* mode has no texture; otherwise it returns a (heightData, colorData) pair.
C8_NoneIffListedMissing ==
    bReps >= 1 => (~IsDefined(bOut) <=> C8_ListedMissing)

\* C8 amended: applyBrush returns none exactly when Flatten or Plane has no
\* targetHeight, Paint has no paint mode, Paint in colour mode has no paint
\* colour, or Paint in texture mode has no texture or no texture settings;
\* otherwise it returns a (heightData, colorData) pair.
C8_NoneIffMissing ==
    bReps >= 1 =>
        (~IsDefined(bOut) <=>
            \/ C8_ListedMissing
            \/ bIn.tool = "Paint" /\ ~IsDefined(bIn.options.paintMode)
            \/ bIn.tool = "Paint" /\ bIn.options.paintMode = Some("texture")
                                  /\ ~IsDefined(bIn.options.textureSettings))

\* Paint in texture mode with a texture but no texture settings returned none
C8_Witness ==
    /\ bReps >= 1
    /\ bIn.tool = "Paint"
    /\ bIn.options.paintMode = Some("texture")
    /\ IsDefined(bIn.options.paintTexture)
    /\ ~IsDefined(bIn.options.textureSettings)
    /\ ~IsDefined(bOut)

\* the squared planar distance of vertex (x, y) to the brush point is at least
\* (size / 2)^2; both sides multiplied by (2 * PlaneScale)^2
C10_Outside(x, y) ==
    (2 * VertexXScaled(x) - 2 * PlaneScale * bIn.point.x) *
    (2 * VertexXScaled(x) - 2 * PlaneScale * bIn.point.x) +
    (2 * VertexZScaled(y) - 2 * PlaneScale * bIn.point.z) *
    (2 * VertexZScaled(y) - 2 * PlaneScale * bIn.point.z)
        >= (bIn.brush.size * PlaneScale) * (bIn.brush.size * PlaneScale)

C10_SameAt(x, y) ==
    LET k == y * (TERRAIN_SEGMENTS_X + 1) + x
    IN  /\ Get(bOut).heightData[k + 1] = bIn.grid.heightData[k + 1]
        /\ \A ch \in 1..3 : Get(bOut).colorData[3 * k + ch] = bIn.grid.colorData[3 * k + ch]

\* C10: for every tool, a vertex at planar distance >= size/2 from the brush
\* point has the same height and the same three colour channels in the result
\* as in the input.
C10_BrushIsLocal ==
    bReps >= 1 /\ IsDefined(bOut) =>
        \A x \in 0..TERRAIN_SEGMENTS_X, y \in 0..TERRAIN_SEGMENTS_Y :
            C10_Outside(x, y) => C10_SameAt(x, y)

\* a call that changed a vertex inside the disc and left one outside it
C10_Witness ==
    /\ bReps >= 1
    /\ IsDefined(bOut)
    /\ \E x \in 0..TERRAIN_SEGMENTS_X, y \in 0..TERRAIN_SEGMENTS_Y :
          ~C10_Outside(x, y) /\ ~C10_SameAt(x, y)
    /\ \E x \in 0..TERRAIN_SEGMENTS_X, y \in 0..TERRAIN_SEGMENTS_Y :
          C10_Outside(x, y) /\ C10_SameAt(x, y)

\* vertex (x, y) lies inside the brush disc of the call
UnderBrush(x, y) == InBrush(x, y, bIn.point, bIn.brush)

HeightIn(x, y) == bIn.grid.heightData[y * (TERRAIN_SEGMENTS_X + 1) + x + 1]
HeightOut(x, y) == Get(bOut).heightData[y * (TERRAIN_SEGMENTS_X + 1) + x + 1]

GridVertices == (0..TERRAIN_SEGMENTS_X) \X (0..TERRAIN_SEGMENTS_Y)

C12_PlaneOnlyRaises ==
    bReps >= 1 /\ IsDefined(bOut) /\ bIn.tool = "Plane" =>
        \A v \in GridVertices :
            /\ HeightOut(v[1], v[2]) >= HeightIn(v[1], v[2])
            /\ HeightIn(v[1], v[2]) >= Get(bIn.options.targetHeight) =>
                  C10_SameAt(v[1], v[2])
            /\ HeightIn(v[1], v[2]) < Get(bIn.options.targetHeight) =>
                  HeightOut(v[1], v[2]) <= Get(bIn.options.targetHeight)

\* the second Plane call raised a vertex further and left one above the
\* target alone
C12_Witness ==
    /\ bReps >= 2
    /\ IsDefined(bOut)
    /\ bIn.tool = "Plane"
    /\ \E v \in GridVertices :
          UnderBrush(v[1], v[2]) /\ HeightOut(v[1], v[2]) > HeightIn(v[1], v[2])
    /\ \E v \in GridVertices :
          UnderBrush(v[1], v[2]) /\ HeightIn(v[1], v[2]) > Get(bIn.options.targetHeight)

Distance(a, b) == IF a >= b THEN a - b ELSE b - a

\* C13: each Flatten call at a fixed point and target T leaves every vertex
\* under the brush no farther from T than before and on the same side of T.
C13_FlattenApproaches ==
    bReps >= 1 /\ IsDefined(bOut) /\ bIn.tool = "Flatten" =>
        LET T == Get(bIn.options.targetHeight)
        IN  \A v \in GridVertices :
                UnderBrush(v[1], v[2]) =>
                    /\ Distance(HeightOut(v[1], v[2]), T) <= Distance(HeightIn(v[1], v[2]), T)
                    /\ HeightIn(v[1], v[2]) >= T => HeightOut(v[1], v[2]) >= T
                    /\ HeightIn(v[1], v[2]) <= T => HeightOut(v[1], v[2]) <= T

\* the second Flatten call moved one vertex down towards T and another up
C13_Witness ==
    /\ bReps >= 2
    /\ IsDefined(bOut)
    /\ bIn.tool = "Flatten"
    /\ \E v \in GridVertices :
          /\ UnderBrush(v[1], v[2])
          /\ HeightIn(v[1], v[2]) > Get(bIn.options.targetHeight)
          /\ HeightOut(v[1], v[2]) < HeightIn(v[1], v[2])
    /\ \E v \in GridVertices :
          /\ UnderBrush(v[1], v[2])
          /\ HeightIn(v[1], v[2]) < Get(bIn.options.targetHeight)
          /\ HeightOut(v[1], v[2]) > HeightIn(v[1], v[2])

\* the call is a Paint call in colour mode that returned a grid
PaintedInColor ==
    /\ bReps >= 1
    /\ IsDefined(bOut)
    /\ bIn.tool = "Paint"
    /\ bIn.options.paintMode = Some("color")

ColorIn(x, y) ==
    LET k == y * (TERRAIN_SEGMENTS_X + 1) + x
    IN  << bIn.grid.colorData[3 * k + 1], bIn.grid.colorData[3 * k + 2],
           bIn.grid.colorData[3 * k + 3] >>

ColorOut(x, y) ==
    LET k == y * (TERRAIN_SEGMENTS_X + 1) + x
    IN  << Get(bOut).colorData[3 * k + 1], Get(bOut).colorData[3 * k + 2],
           Get(bOut).colorData[3 * k + 3] >>

\* C21: Paint in colour mode changes no height, changes no colour of a vertex
\* below LAND_LEVEL, and changes a colour only at a vertex inside the brush
\* disc whose height is at least LAND_LEVEL.
C21_PaintOnlyOnLand ==
    PaintedInColor =>
        /\ Get(bOut).heightData = bIn.grid.heightData
        /\ \A v \in GridVertices :
              /\ HeightIn(v[1], v[2]) < LAND_LEVEL => ColorOut(v[1], v[2]) = ColorIn(v[1], v[2])
              /\ ColorOut(v[1], v[2]) # ColorIn(v[1], v[2]) =>
                    /\ ~C10_Outside(v[1], v[2])
                    /\ HeightIn(v[1], v[2]) >= LAND_LEVEL

\* a colour call with a land vertex and a submerged vertex under the brush:
\* the first was recoloured, the second was not
C21_Witness ==
    /\ PaintedInColor
    /\ \E v \in GridVertices :
          /\ UnderBrush(v[1], v[2])
          /\ HeightIn(v[1], v[2]) >= LAND_LEVEL
          /\ ColorOut(v[1], v[2]) # ColorIn(v[1], v[2])
    /\ \E v \in GridVertices :
          /\ UnderBrush(v[1], v[2])
          /\ Falloff(v[1], v[2], bIn.point, bIn.brush) > 0
          /\ HeightIn(v[1], v[2]) < LAND_LEVEL
          /\ ColorIn(v[1], v[2]) # Get(bIn.options.paintColor)
          /\ ColorOut(v[1], v[2]) = ColorIn(v[1], v[2])

-----------------------------------------------------------------------------
(* Claims about the editor (checked under Spec and SpecGrids) *)

\* the editor together with the brush calls of SpecBrush
EditorRunning == Len(history) > 0

NextGrids == (EditorRunning /\ Next) \/ (~EditorRunning /\ NextBrush)

SpecGrids == (Init \/ InitBrush) /\ [][NextGrids]_vars

HistoryUntouched == history = ev.history /\ currentIndex = ev.currentIndex

\* C5: pointer input pushes onto the history only at the end of a stroke, one
\* entry per completed stroke: pointer-down and pointer-move leave the history
\* and the cursor alone, a pointer-up that ends an active stroke appends
\* exactly one entry after the cursor, and a pointer-up that ends no active
\* stroke pushes nothing.
C5_PushOnlyAtStrokeEnd ==
    /\ ev.type \in {"pointerdown", "pointermove"} => HistoryUntouched
    /\ ev.type = "pointerup" /\ ev.wasPainting =>
          /\ Len(history) = ev.currentIndex + 2
          /\ currentIndex = ev.currentIndex + 1
          /\ SubSeq(history, 1, ev.currentIndex + 1) = SubSeq(ev.history, 1, ev.currentIndex + 1)
    /\ ev.type = "pointerup" /\ ~ev.wasPainting => HistoryUntouched

\* C6: the grid committed by the pointer-up that ends a stroke is the grid that
\* was live when the stroke began with all brush applications of the stroke
\* applied to it in order.
C6_CommitIsStrokeResult ==
    ev.type = "pointerup" /\ ev.wasPainting =>
        GridValue(committedState) = ev.stroke.ideal

\* C7: a brush call that returns none updates neither the live grid nor the
\* history, and a stroke all of whose brush calls returned none leaves the
\* live grid, the history and the cursor as they were.
C7_NoneChangesNothing ==
    /\ ev.type = "pointermove" /\ ev.returned = "none" =>
          app.liveState = ev.liveState /\ HistoryUntouched
    /\ ev.type = "pointerup" /\ ev.wasPainting
            /\ ev.stroke.calls >= 1 /\ ev.stroke.applied = 0 =>
          app.liveState = ev.liveState /\ HistoryUntouched

\* the refs of a stroke are in their idle state
StrokeReset ==
    /\ ~editor.isPainting
    /\ editor.strokeTargetHeight = Undefined
    /\ editor.controlsEnabled

\* a pointer-move, handled while no stroke is active, leaves the live grid
NoBrushWhileIdle ==
    (events' = events + 1 /\ ev'.type = "pointermove" /\ ~editor.isPainting)
        => app'.liveState = app.liveState /\ ev'.returned = "idle"

\* C16: a left-button pointer-up that ends a stroke, wherever the pointer is,
\* sets the painting flag to false, clears the stroke target height and
\* enables the orbit controls; the stroke's refs stay so until the next
\* pointer-down on the terrain, and a pointer-move in between applies no brush.
C16_PointerUpEndsStroke ==
    /\ [](ev.type = "pointerup" => StrokeReset)
    /\ [](~editor.isPainting => StrokeReset)
    /\ [][NoBrushWhileIdle]_vars

\* a Flatten or Plane stroke, with its target height sampled, ended by a
\* pointer-up with the pointer off the terrain
C16_Witness ==
    /\ ev.type = "pointerup"
    /\ ev.returned = "miss"
    /\ ev.wasPainting
    /\ ev.stroke.calls >= 1
    /\ app.tool \in {"Flatten", "Plane"}
    /\ StrokeReset

\* C22: in a stroke whose pointer-down was made with Flatten or Plane, every
\* brush application with a target height uses the height sampled at that
\* pointer-down (for Plane at least LAND_LEVEL), however many pointer-moves
\* were handled and whatever the heights under the brush have become.
C22_TargetFixedInStroke ==
    stroke.tool \in {"Flatten", "Plane"} => stroke.used \subseteq { stroke.target }

\* a Plane stroke begun on the sea floor: its target is LAND_LEVEL, and it is
\* used again after a first application has raised the surface under the
\* pointer
C22_Witness ==
    /\ editor.isPainting
    /\ stroke.tool = "Plane"
    /\ stroke.target = Some(LAND_LEVEL)
    /\ stroke.used = { Some(LAND_LEVEL) }
    /\ stroke.calls >= 2
    /\ ev.type = "pointermove"
    /\ ev.stroke.applied >= 1
    /\ \E point \in HitPoints :
          /\ IntersectionY(ev.liveState.heightData, point) > SEA_FLOOR_LEVEL
          /\ IntersectionY(ev.liveState.heightData, point) < LAND_LEVEL

\* C23: with the Paint tool in texture mode and a texture loaded, a brush
\* application issued by a pointer-move of a stroke returns a result, not none.
C23_TexturePaintApplies ==
    ( /\ ev.type = "pointermove"
      /\ ev.returned \in {"datas", "none"}
      /\ app.tool = "Paint"
      /\ app.paintMode = "texture"
      /\ IsDefined(app.paintTexture) )
    => ev.returned = "datas"

HeightsInRange(g) ==
    \A i \in DOMAIN g.heightData :
        SEA_FLOOR_LEVEL <= g.heightData[i] /\ g.heightData[i] <= TERRAIN_WIDTH

C29_LiveIsCommittedWhenIdle ==
    ~editor.isPainting /\ editor.liveState = app.liveState =>
        GridValue(editor.liveState) = GridValue(history[currentIndex + 1])

GridLengthsOk(g) ==
    /\ Len(g.heightData) = (TERRAIN_SEGMENTS_X + 1) * (TERRAIN_SEGMENTS_Y + 1)
    /\ Len(g.colorData) = 3 * Len(g.heightData)

\* C9: a result of applyBrush has arrays of the same lengths as its input, and
\* in every editor state the live grid and every history entry have
\* (W+1)*(H+1) heights and three colour entries per height.
C9_LengthsKept ==
    /\ bReps >= 1 /\ IsDefined(bOut) =>
          /\ Len(Get(bOut).heightData) = Len(bIn.grid.heightData)
          /\ Len(Get(bOut).colorData) = Len(bIn.grid.colorData)
          /\ GridLengthsOk(Get(bOut))
    /\ EditorRunning =>
          /\ GridLengthsOk(app.liveState)
          /\ \A i \in 1..Len(history) : GridLengthsOk(history[i])

\* a stroke's result is live and three grids are in the history
C9_Witness ==
    /\ EditorRunning
    /\ Len(history) >= 3
    /\ ev.type = "pointermove"
    /\ ev.returned = "datas"
    /\ app.liveState.heightData # ev.liveState.heightData

-----------------------------------------------------------------------------
(* Claims about the history hook (checked under SpecHist) *)

\* what a push leaves of the old sequence before the cap is applied
KeptPrefix == SubSeq(history, 1, currentIndex + 1)

\* number of entries the cap removes when newState joins KeptPrefix
Overflow ==
    IF Len(KeptPrefix) + 1 > MAX_HISTORY THEN Len(KeptPrefix) + 1 - MAX_HISTORY ELSE 0

\* C1 as stated: a push keeps the entries at positions 0..c in place, discards
\* every entry after c, appends the new state and moves the cursor to it, so
\* that redo is impossible afterwards.
C1_PushKeepsPrefix ==
    [][lastOp' = "push" =>
        /\ Len(history') = currentIndex + 2
        /\ \A i \in 1..(currentIndex + 1) : history'[i] = history[i]
        /\ history'[Len(history')] = pushCount
        /\ currentIndex' = Len(history') - 1
        /\ ~canRedo(history', currentIndex')
        /\ redo(history', currentIndex') = currentIndex'
    ]_vars

\* C1 amended: a push keeps the entries at positions 0..c in order, except
\* that the oldest of them are dropped from the front when the result would
\* hold more than MAX_HISTORY entries; every entry after c is discarded, the
\* new state is appended last, the cursor points at it and redo is a no-op.
C1_PushKeepsPrefixUpToCap ==
    [][lastOp' = "push" =>
        /\ Len(history') = Len(KeptPrefix) + 1 - Overflow
        /\ \A i \in 1..(Len(KeptPrefix) - Overflow) :
               history'[i] = KeptPrefix[i + Overflow]
        /\ history'[Len(history')] = pushCount
        /\ currentIndex' = Len(history') - 1
        /\ ~canRedo(history', currentIndex')
        /\ redo(history', currentIndex') = currentIndex'
    ]_vars

\* a push that ran after an undo and threw a redo future away
C1_Witness ==
    /\ lastOp = "push"
    /\ before.op0 = "undo"
    /\ before.idx < before.len - 1
    /\ Len(history) = before.idx + 2
    /\ state(history, currentIndex) = pushCount - 1

\* C2: the sequence never holds more than MAX_HISTORY entries; the cap drops
\* entries from the front, oldest first, so the first entry is the oldest
\* one not yet dropped, and undo repeated until canUndo is false ends on it.
C2_CapDropsOldest ==
    /\ Len(history) <= MAX_HISTORY
    /\ history[1] = evictions
    /\ \A i \in 1..Len(history) : history[i] >= evictions
    /\ (~canUndo(history, currentIndex) => state(history, currentIndex) = evictions)

\* undo has been repeated down to the start after the initial entry was evicted
C2_Witness ==
    /\ evictions > 0
    /\ lastOp = "undo"
    /\ ~canUndo(history, currentIndex)
    /\ state(history, currentIndex) # 0
    /\ Len(history) = MAX_HISTORY

\* C3: the cursor is always a valid index, the current state is an entry of
\* the sequence, and canUndo / canRedo say exactly whether undo / redo move.
C3_CursorValid ==
    /\ currentIndex \in 0..(Len(history) - 1)
    /\ (currentIndex + 1) \in DOMAIN history
    /\ canUndo(history, currentIndex) = (undo(history, currentIndex) = currentIndex - 1)
    /\ canRedo(history, currentIndex) = (redo(history, currentIndex) = currentIndex + 1)
    /\ undo(history, currentIndex) \in 0..(Len(history) - 1)
    /\ redo(history, currentIndex) \in 0..(Len(history) - 1)

\* the cursor sits inside a full sequence after an eviction and an undo
C3_Witness ==
    /\ evictions > 0
    /\ Len(history) = MAX_HISTORY
    /\ lastOp = "undo"
    /\ currentIndex = MAX_HISTORY - 2

\* C4: undo moves the cursor back by exactly one when it is above 0 and does
\* nothing at 0; redo moves it forward by exactly one when it is below the
\* last entry and does nothing there; neither changes the sequence; a redo
\* right after an undo that moved returns to the entry the undo left.
C4_UndoRedoFrame ==
    [][/\ (lastOp' = "undo" =>
            /\ history' = history
            /\ currentIndex' = IF currentIndex > 0 THEN currentIndex - 1 ELSE currentIndex)
       /\ (lastOp' = "redo" =>
            /\ history' = history
            /\ currentIndex' = IF currentIndex < Len(history) - 1
                               THEN currentIndex + 1 ELSE currentIndex)
       /\ (lastOp = "undo" /\ before.idx > 0 /\ lastOp' = "redo" =>
            /\ currentIndex' = before.idx
            /\ state(history', currentIndex') = before.entry)
    ]_vars

\* a redo that followed an undo which moved, back on the entry it left
C4_Witness ==
    /\ lastOp = "redo"
    /\ before.op0 = "undo"
    /\ before.idx0 > 0
    /\ currentIndex = before.idx0
    /\ before.idx = before.idx0 - 1

====
